---------------------------- MODULE Spec2Model ----------------------------
(***************************************************************************)
(* A model of the package tracker's task runner and of the repository      *)
(* synchronisation task.                                                   *)
(*                                                                         *)
(*   Spec      the management command pts_run_task: Command.handle calls   *)
(*             run_task for each name; run_task resolves the producers the *)
(*             task depends on and executes them in dependency order.      *)
(*   SpecSync  UpdateRepositoriesTask.execute (pts/core/retrieve_data.py)  *)
(*             run repeatedly against a changing upstream archive: the     *)
(*             apt cache, the record store, the raised events.             *)
(***************************************************************************)
EXTENDS Integers, Sequences, FiniteSets, TLC

(***************************************************************************)
(* Bounds of the model.                                                    *)
(***************************************************************************)
\* executions of UpdateRepositoriesTask in one behaviour
MaxRuns == 3
\* publications of a new listing by the upstream archive in one behaviour
MaxChanges == 1
\* task names given to one invocation of the command
MaxArgs == 2
\* events one task raises in one run
MaxEmit == 2

(***************************************************************************)
(* The archive: repositories, their Sources files, and the stanzas the     *)
(* files are drawn from.                                                   *)
(***************************************************************************)
Repositories == {"stable", "testing"}

\* the cached Sources files, in the order of sources.list
Files == <<"stable_main_Sources", "stable_contrib_Sources", "testing_main_Sources">>

FileSet == {Files[i] : i \in 1..Len(Files)}

\* every file is matched to one repository
match_index_file_to_repository_Stable(f) == "stable"

\* AptCache._match_index_file_to_repository
match_index_file_to_repository(f) ==
    IF f = "testing_main_Sources" THEN "testing" ELSE "stable"

\* A stanza of a Sources file.  allow is the verdict of the vendor hook
\* allow_package for the stanza (FALSE: the hook is implemented and rejects).
a1 == [package |-> "pkg-a", version |-> "1.0", binary |-> <<"bin-a">>, allow |-> TRUE]
a2 == [package |-> "pkg-a", version |-> "2.0", binary |-> <<"bin-a">>, allow |-> TRUE]
b1 == [package |-> "pkg-b", version |-> "1.0", binary |-> <<"bin-b">>, allow |-> TRUE]
bx == [package |-> "pkg-b", version |-> "0.9", binary |-> <<"bin-b">>, allow |-> FALSE]

Stanzas == {a1, a2, b1, bx}

\* the contents a Sources file takes
Listings == {<< >>, <<a1>>, <<a2>>, <<a1, a2>>, <<b1, bx>>}

\* a file of the apt cache: absent, or present with the listing fetched
NotCached == [present |-> FALSE, listing |-> << >>]

Cached(listing) == [present |-> TRUE, listing |-> listing]

\* the binary package names a source package version was created with
BinaryOf(pv) ==
    LET s == CHOOSE s \in Stanzas : s.package = pv[1] /\ s.version = pv[2]
    IN  {s.binary[i] : i \in 1..Len(s.binary)}

VARIABLES
    upstream,       \* file -> the listing the archive serves
    cached,         \* file -> the file of the apt cache
    names,          \* SourcePackageName rows
    versions,       \* SourcePackage rows: <<name, version>>
    entries,        \* SourcePackageRepositoryEntry rows: <<repository, name, version>>
    binaries,       \* BinaryPackageName rows
    pc,             \* where UpdateRepositoriesTask.execute stands
    force_update,   \* PackageUpdateTask.force_update of the running task
    updated_sources,\* the Sources files update_repositories reported, in order
    repository_files, \* the repositories of updated_sources still to handle
    repository,     \* the repository being handled
    position,       \* <<index into the repository's updated files, index of the stanza>>
    all_repository_entries, \* UpdateRepositoriesTask._all_repository_entries
    raised_events,  \* BaseTask raised events of the running task
    saved,          \* the store when the transaction was entered
    outcome,        \* of the execution that just ended: "none", "ok", "failed"
    runs,           \* executions started
    changes,        \* upstream publications made
    quiet,          \* the last execution succeeded and upstream did not change since
    clean,          \* no execution has failed so far
    audit,          \* observations of the current execution (not program state)
    args,           \* Command.handle: the task names given
    options_force,  \* Command.handle: kwargs['force']
    arg_index,      \* Command.handle: the index of the name the loop stands at
    hpc,            \* Command.handle: "loop", "run", "ran", "exit", "abort"
    attempts,       \* the names run_task was called with, in order
    job,            \* run_task: the tasks of the run
    status,         \* task -> "None", "Pending", "Running", "Succeeded", "Failed"
    task_force_update, \* task -> PackageUpdateTask.force_update
    event_log,      \* the events of the run: [name, producer, run], in order
    received,       \* task -> the events process_event was called with
    emitted,        \* task -> the number of raise_event calls it made in the run
    started,        \* the tasks of the run in the order they started
    executions,     \* task -> the times its execute started in this invocation of
                    \* the command (not program state)
    given_parameters, \* the mapping of the last call of set_parameters
    calls,          \* calls made of the method under study
    archive,        \* index file -> the version of it the archive serves
    lists,          \* index file -> the version in var/lib/apt/lists, 0: none
    lists_before,   \* lists when cache.update of the current call began
    force_download, \* the argument of the current call of update_repositories
    progress,       \* AcquireProgress: [fetched, hit], lists of file names
    result,         \* <<updated_sources, updated_packages>> of the last call
    upc,            \* where the call of update_repositories is
    bouncestats_set, \* email user -> the BounceStats rows of the user
    accounts_password, \* User: user -> the password stored, "none": no such user
    accounts_emails, \* User.emails: email -> the user it belongs to, or "none"
    auth_call,      \* the last call of authenticate: [username, password, result]
    news,           \* the News rows the running news task created: [kind, package, version, repository]
    package_names,  \* PackageName rows: name -> package_type, "none": no such row
    pseudo_call,    \* the last call of update_pseudo_package_list: [hook, result]
    extraction      \* ExtractSourcePackageFiles.execute under way:
                    \* [source_packages, extracted, failed, raised]

syncvars == <<upstream, cached, names, versions, entries, binaries, pc,
              force_update, updated_sources, repository_files, repository,
              position, all_repository_entries, raised_events, saved, outcome,
              runs, changes, quiet, clean, audit>>

schedvars == <<args, options_force, arg_index, hpc, attempts, job, status,
               task_force_update, event_log, received, emitted, started,
               executions>>

cachevars == <<archive, lists, lists_before, force_download, progress, result,
               upc>>

\* the tables of the other applications
authvars == <<accounts_password, accounts_emails, auth_call>>

appvars == <<bouncestats_set, authvars>>

\* the rows of pts.core outside the repository tables
corevars == <<news, package_names, pseudo_call, extraction>>

unitvars == <<given_parameters, calls, cachevars, appvars, corevars>>

vars == <<syncvars, schedvars, unitvars>>

(***************************************************************************)
(* Events (BaseTask.raise_event): a name and an argument mapping.          *)
(***************************************************************************)
Event(name, arguments) == [name |-> name, arguments |-> arguments]

\* UpdateRepositoriesTask.PRODUCES_EVENTS
\* the declaration without the events of the binary package names
UpdateRepositoriesTask_PRODUCES_EVENTS_SourceOnly ==
    {"new-source-package", "new-source-package-version",
     "new-source-package-in-repository",
     "new-source-package-version-in-repository",
     "lost-source-package", "lost-source-package-version-in-repository",
     "lost-version-of-source-package"}

UpdateRepositoriesTask_PRODUCES_EVENTS ==
    {"new-source-package", "new-source-package-version",
     "new-source-package-in-repository",
     "new-source-package-version-in-repository",
     "new-binary-package", "lost-source-package",
     "lost-source-package-version-in-repository",
     "lost-version-of-source-package", "lost-binary-package"}

(***************************************************************************)
(* The task registry: the tasks of pts/core/retrieve_data.py with the      *)
(* events they declare.                                                    *)
(***************************************************************************)
UpdatePackageGeneralInformation_DEPENDS_ON_EVENTS ==
    {"new-source-package-version-in-repository",
     "lost-source-package-version-in-repository"}

UpdateVersionInformation_DEPENDS_ON_EVENTS ==
    {"new-source-package-version-in-repository",
     "lost-source-package-version-in-repository"}

UpdateSourceToBinariesInformation_DEPENDS_ON_EVENTS ==
    {"new-source-package-version-in-repository",
     "lost-source-package-version-in-repository"}

GenerateNewsFromRepositoryUpdates_DEPENDS_ON_EVENTS ==
    {"new-source-package-version",
     "new-source-package-version-in-repository",
     "lost-source-package-version-in-repository",
     "source-files-extracted"}

\* the declaration left out
ExtractSourcePackageFiles_DEPENDS_ON_NOTHING == {}

\* the task waiting for its own event
ExtractSourcePackageFiles_DEPENDS_ON_ITSELF ==
    {"new-source-package-version", "source-files-extracted"}

ExtractSourcePackageFiles_DEPENDS_ON_EVENTS == {"new-source-package-version"}

\* the task without a declaration of the event it raises
ExtractSourcePackageFiles_PRODUCES_NOTHING == {}

ExtractSourcePackageFiles_PRODUCES_EVENTS == {"source-files-extracted"}

Tasks ==
    {"UpdateRepositoriesTask", "UpdatePackageGeneralInformation",
     "UpdateVersionInformation", "UpdateSourceToBinariesInformation",
     "GenerateNewsFromRepositoryUpdates", "ExtractSourcePackageFiles"}

\* BaseTask.DEPENDS_ON_EVENTS and BaseTask.PRODUCES_EVENTS default to ()
DEPENDS_ON_EVENTS(t) ==
    CASE t = "UpdatePackageGeneralInformation" ->
            UpdatePackageGeneralInformation_DEPENDS_ON_EVENTS
      [] t = "UpdateVersionInformation" ->
            UpdateVersionInformation_DEPENDS_ON_EVENTS
      [] t = "UpdateSourceToBinariesInformation" ->
            UpdateSourceToBinariesInformation_DEPENDS_ON_EVENTS
      [] t = "GenerateNewsFromRepositoryUpdates" ->
            GenerateNewsFromRepositoryUpdates_DEPENDS_ON_EVENTS
      [] t = "ExtractSourcePackageFiles" ->
            ExtractSourcePackageFiles_DEPENDS_ON_EVENTS
      [] OTHER -> {}

PRODUCES_EVENTS(t) ==
    CASE t = "UpdateRepositoriesTask" -> UpdateRepositoriesTask_PRODUCES_EVENTS
      [] t = "ExtractSourcePackageFiles" -> ExtractSourcePackageFiles_PRODUCES_EVENTS
      [] OTHER -> {}

\* UpdateRepositoriesTask.execute left without the decorator
ClearsEventsOnException_ExecuteNotWrapped ==
    {"UpdatePackageGeneralInformation", "UpdateVersionInformation",
     "UpdateSourceToBinariesInformation"}

\* the tasks whose execute is wrapped in clear_all_events_on_exception
ClearsEventsOnException ==
    {"UpdateRepositoriesTask", "UpdatePackageGeneralInformation",
     "UpdateVersionInformation", "UpdateSourceToBinariesInformation"}

\* the subclasses of PackageUpdateTask
PackageUpdateTasks ==
    {"UpdateRepositoriesTask", "UpdatePackageGeneralInformation",
     "UpdateVersionInformation", "UpdateSourceToBinariesInformation"}

\* the names given on the command line: tasks, a name no task has, and a
\* byte string that is not UTF-8
NoSuchTask == "NoSuchTask"

NotUtf8 == "\\xff"

Names ==
    {"UpdateRepositoriesTask", "UpdatePackageGeneralInformation",
     "ExtractSourcePackageFiles", "GenerateNewsFromRepositoryUpdates",
     NoSuchTask, NotUtf8}

(***************************************************************************)
(* Helpers.                                                                *)
(***************************************************************************)
Range(s) == {s[i] : i \in 1..Len(s)}

\* a query set iterated: the rows of S in the order of the database
RECURSIVE Rows(_)
Rows(S) ==
    IF S = {} THEN << >>
    ELSE LET x == CHOOSE x \in S : TRUE IN <<x>> \o Rows(S \ {x})

Store == [names |-> names, versions |-> versions, entries |-> entries,
          binaries |-> binaries]

EmptyStore == [names |-> {}, versions |-> {}, entries |-> {}, binaries |-> {}]

EmptyAudit == [created |-> {}, touched |-> {}, removed |-> {},
               handled |-> {}, gc_versions |-> {}, gc_names |-> {},
               quiet |-> FALSE, dirty |-> FALSE]

\* Repository.has_source_package
has_source_package(r, pv) == <<r, pv[1], pv[2]>> \in entries

\* Repository.has_source_package_name
has_source_package_name(r, name) ==
    \E e \in entries : e[1] = r /\ e[2] = name

\* the updated Sources files of repository r, in the order reported
SourcesFilesOf(r) ==
    SelectSeq(updated_sources, LAMBDA f : match_index_file_to_repository(f) = r)

\* AptCache.get_sources_files_for_repository
get_sources_files_for_repository(r) ==
    {f \in FileSet : cached[f].present /\ match_index_file_to_repository(f) = r}


(***************************************************************************)
(* AptCache.update_repositories: the cache after the update and the files  *)
(* fetched by it.  A forced update clears the cache first; apt fetches a   *)
(* file whose cached copy differs from what the archive serves and answers *)
(* the others from the cache.                                              *)
(***************************************************************************)
clear_cache == [f \in FileSet |-> NotCached]

\* the cache is not cleared for a forced update
fetched_CacheKept(force) ==
    {f \in FileSet : cached[f] # Cached(upstream[f])}

fetched(force) ==
    LET before == IF force THEN clear_cache ELSE cached
    IN  {f \in FileSet : before[f] # Cached(upstream[f])}

update_repositories(force) ==
    SelectSeq(Files, LAMBDA f : f \in fetched(force))

(***************************************************************************)
(* UpdateRepositoriesTask._update_sources_file: the stanzas are handled    *)
(* one by one; position names the next one.                                *)
(***************************************************************************)
Finished == <<0, 0>>

\* the first stanza at or after stanza si of the fi-th updated file of r
RECURSIVE Norm(_, _, _)
Norm(r, fi, si) ==
    IF fi > Len(SourcesFilesOf(r)) THEN Finished
    ELSE IF si > Len(cached[SourcesFilesOf(r)[fi]].listing)
         THEN Norm(r, fi + 1, 1)
         ELSE <<fi, si>>

CurrentStanza ==
    cached[SourcesFilesOf(repository)[position[1]]].listing[position[2]]

\* the vendor hook: allow, implemented = vendor.call('allow_package', stanza)
Rejected(stanza) == ~stanza.allow

\* the binary names created without an event
NewBinaryEvents_None(bins, existing) == << >>

\* the events of _extract_information_from_sources_entry: one
\* new-binary-package for each binary name that is not yet stored
RECURSIVE NewBinaryEvents(_, _)
NewBinaryEvents(bins, existing) ==
    IF bins = << >> THEN << >>
    ELSE (IF Head(bins) \in existing THEN << >>
          ELSE <<Event("new-binary-package", [name |-> Head(bins)])>>)
         \o NewBinaryEvents(Tail(bins), existing \cup {Head(bins)})

\* the events of one accepted stanza when the repository is not asked
\* whether it has the package under another version
StanzaEvents_NameNotLookedUp(r, stanza) ==
    LET pv == <<stanza.package, stanza.version>>
    IN  (IF stanza.package \notin names
         THEN <<Event("new-source-package", [name |-> stanza.package])>>
         ELSE << >>)
        \o
        (IF pv \notin versions
         THEN <<Event("new-source-package-version",
                      [name |-> pv[1], version |-> pv[2], pk |-> pv])>>
              \o NewBinaryEvents(stanza.binary, binaries)
         ELSE << >>)
        \o
        (IF ~has_source_package(r, pv)
         THEN <<Event("new-source-package-in-repository",
                      [name |-> pv[1], repository |-> r]),
                Event("new-source-package-version-in-repository",
                      [name |-> pv[1], version |-> pv[2], repository |-> r])>>
         ELSE << >>)

\* the events of one accepted stanza when the entry event is raised whether
\* or not the entry was there
StanzaEvents_EntryNotLookedUp(r, stanza) ==
    LET pv == <<stanza.package, stanza.version>>
    IN  (IF stanza.package \notin names
         THEN <<Event("new-source-package", [name |-> stanza.package])>>
         ELSE << >>)
        \o
        (IF pv \notin versions
         THEN <<Event("new-source-package-version",
                      [name |-> pv[1], version |-> pv[2], pk |-> pv])>>
              \o NewBinaryEvents(stanza.binary, binaries)
         ELSE << >>)
        \o
        (IF ~has_source_package_name(r, pv[1])
         THEN <<Event("new-source-package-in-repository",
                      [name |-> pv[1], repository |-> r])>>
         ELSE << >>)
        \o <<Event("new-source-package-version-in-repository",
                   [name |-> pv[1], version |-> pv[2], repository |-> r])>>

\* the events of one accepted stanza when the version event is raised for
\* each repository the version is new in
StanzaEvents_VersionPerRepository(r, stanza) ==
    LET pv == <<stanza.package, stanza.version>>
    IN  (IF stanza.package \notin names
         THEN <<Event("new-source-package", [name |-> stanza.package])>>
         ELSE << >>)
        \o
        (IF ~has_source_package(r, pv)
         THEN <<Event("new-source-package-version",
                      [name |-> pv[1], version |-> pv[2], pk |-> pv])>>
         ELSE << >>)
        \o
        (IF pv \notin versions
         THEN NewBinaryEvents(stanza.binary, binaries)
         ELSE << >>)
        \o
        (IF ~has_source_package(r, pv)
         THEN (IF ~has_source_package_name(r, pv[1])
               THEN <<Event("new-source-package-in-repository",
                            [name |-> pv[1], repository |-> r])>>
               ELSE << >>)
              \o <<Event("new-source-package-version-in-repository",
                         [name |-> pv[1], version |-> pv[2], repository |-> r])>>
         ELSE << >>)

\* the events one accepted stanza raises, in the order of the code
StanzaEvents(r, stanza) ==
    LET pv == <<stanza.package, stanza.version>>
    IN  (IF stanza.package \notin names
         THEN <<Event("new-source-package", [name |-> stanza.package])>>
         ELSE << >>)
        \o
        (IF pv \notin versions
         THEN <<Event("new-source-package-version",
                      [name |-> pv[1], version |-> pv[2], pk |-> pv])>>
              \o NewBinaryEvents(stanza.binary, binaries)
         ELSE << >>)
        \o
        (IF ~has_source_package(r, pv)
         THEN (IF ~has_source_package_name(r, pv[1])
               THEN <<Event("new-source-package-in-repository",
                            [name |-> pv[1], repository |-> r])>>
               ELSE << >>)
              \o <<Event("new-source-package-version-in-repository",
                         [name |-> pv[1], version |-> pv[2], repository |-> r])>>
         ELSE << >>)

(***************************************************************************)
(* UpdateRepositoriesTask._mark_sources_file_not_processed                 *)
(***************************************************************************)
\* packages = {stanza['package']: stanza['version'] for stanza in ...}
RECURSIVE packages(_)
packages(listing) ==
    IF listing = << >> THEN << >>
    ELSE LET rest == packages(SubSeq(listing, 1, Len(listing) - 1))
             last == listing[Len(listing)]
         IN  [n \in (DOMAIN rest) \cup {last.package} |->
                 IF n = last.package THEN last.version ELSE rest[n]]

\* the entries of repository r the un-updated file f marks as processed
mark_sources_file_not_processed(r, f) ==
    LET pk == packages(cached[f].listing)
    IN  {e \in entries : e[1] = r /\ e[2] \in DOMAIN pk /\ e[3] = pk[e[2]]}

(***************************************************************************)
(* UpdateRepositoriesTask._update_repository_entries: the entries of the   *)
(* repository that were not found in the last update.                      *)
(***************************************************************************)
StaleEntries_WithoutExclude(r) == {e \in entries : e[1] = r}

StaleEntries(r) ==
    {e \in entries : e[1] = r /\ e \notin all_repository_entries}

\* the event without the repository it was lost in
LostInRepository_WithoutRepository(e) ==
    Event("lost-source-package-version-in-repository",
          [name |-> e[2], version |-> e[3]])

LostInRepository(e) ==
    Event("lost-source-package-version-in-repository",
          [name |-> e[2], version |-> e[3], repository |-> e[1]])

(***************************************************************************)
(* UpdateRepositoriesTask._remove_query_set_if_count_zero, for the three   *)
(* query sets of _remove_obsolete_packages.                                *)
(***************************************************************************)
ZeroCountVersions_OneRepository ==
    {pv \in versions :
        ~\E e \in entries : e[1] = "stable" /\ e[2] = pv[1] /\ e[3] = pv[2]}

\* no version is taken for unused
ZeroCountVersions_None == {}

ZeroCountVersions ==
    {pv \in versions : ~\E e \in entries : e[2] = pv[1] /\ e[3] = pv[2]}

ZeroCountNames ==
    {n \in names : ~\E pv \in versions : pv[1] = n}

ZeroCountBinaries ==
    {b \in binaries : ~\E pv \in versions : b \in BinaryOf(pv)}

LostVersion(pv) ==
    Event("lost-version-of-source-package", [name |-> pv[1], version |-> pv[2]])

\* the loss of the name reported as the loss of a version
LostPackage_AsLostVersion(n) ==
    Event("lost-version-of-source-package", [name |-> n])

LostPackage(n) == Event("lost-source-package", [name |-> n])

LostBinary(b) == Event("lost-binary-package", [name |-> b])


(***************************************************************************)
(* The initial state: a fresh installation (empty store, empty cache) in   *)
(* front of an archive that serves some listings.                          *)
(***************************************************************************)
NoJob ==
    /\ job = {}
    /\ status = [t \in Tasks |-> "None"]
    /\ task_force_update = [t \in Tasks |-> FALSE]
    /\ event_log = << >>
    /\ received = [t \in Tasks |-> << >>]
    /\ emitted = [t \in Tasks |-> 0]
    /\ started = << >>

(***************************************************************************)
(* AptCache.update_repositories with the index files apt acquires: Sources *)
(* and Packages files and a file of another name.  A file name is the      *)
(* sequence of the parts that the name joins with "_".                     *)
(***************************************************************************)
AcquiredFiles ==
    {<<"stable", "main", "source", "Sources">>,
     <<"testing", "main", "source", "Sources">>,
     <<"stable", "main", "binary-amd64", "Packages">>,
     <<"stable", "InRelease">>}

\* file_name.endswith(suffix)
endswith(file_name, suffix) == file_name[Len(file_name)] = suffix

\* AptCache._index_file_full_path
index_file_full_path(file_name) == <<"var", "lib", "apt", "lists">> \o file_name

\* AptCache._match_index_file_to_repository for the names of AcquiredFiles
AptCache_match_index_file_to_repository(file_name) == file_name[1]

\* every fetched file is taken for a Sources file
AptCache_updated_files_AllSources(fetched_files) ==
    <<[i \in 1..Len(fetched_files) |->
          <<AptCache_match_index_file_to_repository(fetched_files[i]),
            index_file_full_path(fetched_files[i])>>],
      << >>>>

\* the loop of AptCache.update_repositories over progress.fetched:
\* <<updated_sources, updated_packages>>
AptCache_updated_files(fetched_files) ==
    LET to_sources ==
            SelectSeq(fetched_files, LAMBDA f : endswith(f, "Sources"))
        to_packages == SelectSeq(fetched_files,
                              LAMBDA f : /\ ~endswith(f, "Sources")
                                         /\ endswith(f, "Packages"))
        Pairs(s) == [i \in 1..Len(s) |->
                        <<AptCache_match_index_file_to_repository(s[i]),
                          index_file_full_path(s[i])>>]
    IN  <<Pairs(to_sources), Pairs(to_packages)>>

NoProgress == [fetched |-> << >>, hit |-> << >>]

\* update_repositories has not been called; nothing is cached
NoUpdate ==
    /\ archive = [f \in AcquiredFiles |-> 1]
    /\ lists = [f \in AcquiredFiles |-> 0]
    /\ lists_before = [f \in AcquiredFiles |-> 0]
    /\ force_download = FALSE
    /\ progress = NoProgress
    /\ result = <<<< >>, << >>>>
    /\ upc = "idle"

(***************************************************************************)
(* distro_tracker.mail: the bounce statistics of the email users.          *)
(***************************************************************************)
EmailUsers == {"user@domain.com", "other@domain.com"}

\* the dates of the calls
Dates == 1..3

\* settings.PTS_MAX_DAYS_TOLERATE_BOUNCE
PTS_MAX_DAYS_TOLERATE_BOUNCE == 2

\* no statistics are kept yet
NoBounceStats == bouncestats_set = [u \in EmailUsers |-> {}]

(***************************************************************************)
(* pts.accounts: the users, their passwords and their email addresses.     *)
(***************************************************************************)
Users == {"user", "admin"}

Emails == {"user@domain.com", "email@domain.com", "admin@domain.com"}

Passwords == {"asdf", "fdsa"}

\* no user has an account; authenticate has not been called
NoAccounts ==
    /\ accounts_password = [u \in Users |-> "none"]
    /\ accounts_emails = [e \in Emails |-> "none"]
    /\ auth_call = [username |-> "none", password |-> "none", result |-> "none"]

(***************************************************************************)
(* pts.core: News rows and PackageName rows.                               *)
(***************************************************************************)
NoNews == news = << >>

PackageNames == {"pkg-a", "bugs", "wnpp"}

PackageTypes == {"source", "pseudo", "subscription-only"}

NoPackageNames == [n \in PackageNames |-> "none"]

\* vendor.call('get_pseudo_package_list') has not been made
NoHook == [outcome |-> "none", pseudo_packages |-> {}]

NoPseudoCall == pseudo_call = [hook |-> NoHook, result |-> "none"]

NoExtraction ==
    [source_packages |-> << >>, extracted |-> {}, failed |-> {},
     raised |-> << >>]

\* nothing but the PackageName table
NoCallYet ==
    /\ given_parameters = << >>
    /\ calls = 0
    /\ NoUpdate
    /\ NoBounceStats
    /\ NoAccounts
    /\ NoNews
    /\ NoPseudoCall
    /\ extraction = NoExtraction

NoCall ==
    /\ NoCallYet
    /\ package_names = NoPackageNames

NoInvocation ==
    /\ NoCall
    /\ executions = [t \in Tasks |-> 0]
    /\ args = << >>
    /\ options_force = FALSE
    /\ arg_index = 1
    /\ hpc = "exit"
    /\ attempts = << >>
    /\ NoJob

TaskIdle ==
    /\ pc = "idle"
    /\ force_update = FALSE
    /\ updated_sources = << >>
    /\ repository_files = {}
    /\ repository = "none"
    /\ position = Finished
    /\ all_repository_entries = {}
    /\ raised_events = << >>
    /\ saved = EmptyStore
    /\ outcome = "none"
    /\ audit = EmptyAudit

InitSync ==
    /\ upstream \in [FileSet -> Listings]
    /\ cached = clear_cache
    /\ names = {} /\ versions = {} /\ entries = {} /\ binaries = {}
    /\ TaskIdle
    /\ runs = 0 /\ changes = 0 /\ quiet = FALSE /\ clean = TRUE
    /\ NoInvocation

(***************************************************************************)
(* The archive publishes another listing for one file.                     *)
(***************************************************************************)
upstream_change(f, listing) ==
    /\ pc = "idle"
    /\ changes < MaxChanges
    /\ listing # upstream[f]
    /\ upstream' = [upstream EXCEPT ![f] = listing]
    /\ changes' = changes + 1
    /\ quiet' = FALSE
    /\ UNCHANGED <<cached, names, versions, entries, binaries, pc, force_update,
                   updated_sources, repository_files, repository, position,
                   all_repository_entries, raised_events, saved, outcome, runs,
                   clean, audit>>
    /\ UNCHANGED schedvars
    /\ UNCHANGED unitvars

(***************************************************************************)
(* UpdateRepositoriesTask.execute, up to the entry of the transaction: the *)
(* cache update and the grouping of the updated files by repository.       *)
(***************************************************************************)
execute_begin(force) ==
    /\ pc = "idle"
    /\ runs < MaxRuns
    /\ runs' = runs + 1
    /\ force_update' = force
    /\ cached' = [f \in FileSet |-> Cached(upstream[f])]
    /\ updated_sources' = update_repositories(force)
    /\ repository_files' =
          {match_index_file_to_repository(f) : f \in fetched(force)}
    /\ saved' = Store
    /\ audit' = [EmptyAudit EXCEPT !.quiet = quiet]
    /\ quiet' = FALSE
    /\ pc' = IF fetched(force) = {} THEN "gc_versions" ELSE "repository"
    /\ UNCHANGED <<upstream, names, versions, entries, binaries, repository,
                   position, all_repository_entries, raised_events, outcome,
                   changes, clean>>
    /\ UNCHANGED schedvars
    /\ UNCHANGED unitvars

\* the cache update raises (the archive cannot be reached): nothing is
\* fetched, a forced update has cleared the cache before
update_repositories_fail(force) ==
    /\ pc = "idle"
    /\ runs < MaxRuns
    /\ runs' = runs + 1
    /\ force_update' = force
    /\ cached' = IF force THEN clear_cache ELSE cached
    /\ saved' = Store
    /\ audit' = [EmptyAudit EXCEPT !.quiet = quiet]
    /\ quiet' = FALSE
    /\ outcome' = "failed"
    /\ clean' = FALSE
    /\ pc' = "done"
    /\ UNCHANGED <<upstream, names, versions, entries, binaries,
                   updated_sources, repository_files, repository, position,
                   all_repository_entries, raised_events, changes>>
    /\ UNCHANGED schedvars
    /\ UNCHANGED unitvars

\* for repository, sources_files in repository_files.items()
next_repository(r) ==
    /\ pc = "repository"
    /\ r \in repository_files
    /\ repository' = r
    /\ repository_files' = repository_files \ {r}
    /\ position' = Norm(r, 1, 1)
    /\ pc' = IF Norm(r, 1, 1) = Finished THEN "mark" ELSE "sources"
    /\ UNCHANGED <<upstream, cached, names, versions, entries, binaries,
                   force_update, updated_sources, all_repository_entries,
                   raised_events, saved, outcome, runs, changes, quiet, clean,
                   audit>>
    /\ UNCHANGED schedvars
    /\ UNCHANGED unitvars

\* one pass of the loop of _update_sources_file
update_sources_file ==
    /\ pc = "sources"
    /\ LET stanza == CurrentStanza
           pv == <<stanza.package, stanza.version>>
           entry == <<repository, pv[1], pv[2]>>
           next == Norm(repository, position[1], position[2] + 1)
       IN  /\ IF Rejected(stanza)
              THEN UNCHANGED <<names, versions, entries, binaries,
                               all_repository_entries, raised_events, audit>>
              ELSE /\ names' = names \cup {stanza.package}
                   /\ versions' = versions \cup {pv}
                   /\ binaries' = IF pv \in versions THEN binaries
                                  ELSE binaries \cup Range(stanza.binary)
                   /\ entries' = entries \cup {entry}
                   /\ raised_events' =
                         raised_events \o StanzaEvents(repository, stanza)
                   /\ all_repository_entries' =
                         all_repository_entries \cup {entry}
                   /\ audit' =
                         [audit EXCEPT
                            !.created = IF has_source_package(repository, pv)
                                        THEN @ ELSE @ \cup {entry},
                            !.touched = @ \cup {entry}]
           /\ position' = next
           /\ pc' = IF next = Finished THEN "mark" ELSE "sources"
    /\ UNCHANGED <<upstream, cached, force_update, updated_sources,
                   repository_files, repository, saved, outcome, runs, changes,
                   quiet, clean>>
    /\ UNCHANGED schedvars
    /\ UNCHANGED unitvars

\* the un-updated Sources files of the repository mark their entries
mark_sources_files_not_processed ==
    /\ pc = "mark"
    /\ LET marked == UNION {mark_sources_file_not_processed(repository, f) :
                              f \in get_sources_files_for_repository(repository)
                                    \ Range(SourcesFilesOf(repository))}
       IN  /\ all_repository_entries' = all_repository_entries \cup marked
           /\ audit' = [audit EXCEPT !.touched = @ \cup marked]
    /\ pc' = "entries"
    /\ UNCHANGED <<upstream, cached, names, versions, entries, binaries,
                   force_update, updated_sources, repository_files, repository,
                   position, raised_events, saved, outcome, runs, changes,
                   quiet, clean>>
    /\ UNCHANGED schedvars
    /\ UNCHANGED unitvars

\* the stale entries are deleted and no event is raised for them
update_repository_entries_NoEvent ==
    /\ pc = "entries"
    /\ entries' = entries \ StaleEntries(repository)
    /\ all_repository_entries' = {}
    /\ audit' = [audit EXCEPT !.removed = @ \cup StaleEntries(repository),
                              !.handled = @ \cup {repository}]
    /\ pc' = IF repository_files = {} THEN "gc_versions" ELSE "repository"
    /\ UNCHANGED <<upstream, cached, names, versions, binaries, force_update,
                   updated_sources, repository_files, repository, position,
                   raised_events, saved, outcome, runs, changes, quiet, clean>>
    /\ UNCHANGED schedvars
    /\ UNCHANGED unitvars

update_repository_entries ==
    /\ pc = "entries"
    /\ raised_events' =
          raised_events \o
          (LET rows == Rows(StaleEntries(repository))
           IN  [i \in 1..Len(rows) |-> LostInRepository(rows[i])])
    /\ entries' = entries \ StaleEntries(repository)
    /\ all_repository_entries' = {}
    /\ audit' = [audit EXCEPT !.removed = @ \cup StaleEntries(repository),
                              !.handled = @ \cup {repository}]
    /\ pc' = IF repository_files = {} THEN "gc_versions" ELSE "repository"
    /\ UNCHANGED <<upstream, cached, names, versions, binaries, force_update,
                   updated_sources, repository_files, repository, position,
                   saved, outcome, runs, changes, quiet, clean>>
    /\ UNCHANGED schedvars
    /\ UNCHANGED unitvars

(***************************************************************************)
(* UpdateRepositoriesTask._remove_obsolete_packages, one query set after   *)
(* the other; the transaction commits after the last.                      *)
(***************************************************************************)
remove_obsolete_versions ==
    /\ pc = "gc_versions"
    /\ raised_events' = raised_events \o
          (LET rows == Rows(ZeroCountVersions)
           IN  [i \in 1..Len(rows) |-> LostVersion(rows[i])])
    /\ versions' = versions \ ZeroCountVersions
    /\ audit' = [audit EXCEPT !.gc_versions = ZeroCountVersions]
    /\ pc' = "gc_names"
    /\ UNCHANGED <<upstream, cached, names, entries, binaries, force_update,
                   updated_sources, repository_files, repository, position,
                   all_repository_entries, saved, outcome, runs, changes, quiet,
                   clean>>
    /\ UNCHANGED schedvars
    /\ UNCHANGED unitvars

remove_obsolete_names ==
    /\ pc = "gc_names"
    /\ raised_events' = raised_events \o
          (LET rows == Rows(ZeroCountNames)
           IN  [i \in 1..Len(rows) |-> LostPackage(rows[i])])
    /\ names' = names \ ZeroCountNames
    /\ audit' = [audit EXCEPT !.gc_names = ZeroCountNames]
    /\ pc' = "gc_binaries"
    /\ UNCHANGED <<upstream, cached, versions, entries, binaries, force_update,
                   updated_sources, repository_files, repository, position,
                   all_repository_entries, saved, outcome, runs, changes, quiet,
                   clean>>
    /\ UNCHANGED schedvars
    /\ UNCHANGED unitvars

remove_obsolete_binaries ==
    /\ pc = "gc_binaries"
    /\ raised_events' = raised_events \o
          (LET rows == Rows(ZeroCountBinaries)
           IN  [i \in 1..Len(rows) |-> LostBinary(rows[i])])
    /\ binaries' = binaries \ ZeroCountBinaries
    /\ outcome' = "ok"
    /\ quiet' = TRUE
    /\ pc' = "done"
    /\ UNCHANGED <<upstream, cached, names, versions, entries, force_update,
                   updated_sources, repository_files, repository, position,
                   all_repository_entries, saved, runs, changes, clean, audit>>
    /\ UNCHANGED schedvars
    /\ UNCHANGED unitvars

(***************************************************************************)
(* An error inside the transaction: transaction.commit_on_success rolls    *)
(* the store back, clear_all_events_on_exception clears the events.        *)
(***************************************************************************)
InTransaction ==
    pc \in {"repository", "sources", "mark", "entries",
            "gc_versions", "gc_names", "gc_binaries"}

\* the error leaves execute without the transaction around its body
execute_fail_NotInTransaction ==
    /\ InTransaction
    /\ raised_events' = << >>
    /\ outcome' = "failed"
    /\ pc' = "done"
    /\ audit' = [EmptyAudit EXCEPT !.quiet = audit.quiet,
                                   !.dirty = (Store # saved)]
    /\ repository_files' = {}
    /\ repository' = "none"
    /\ position' = Finished
    /\ all_repository_entries' = {}
    /\ clean' = FALSE
    /\ UNCHANGED <<upstream, cached, names, versions, entries, binaries,
                   force_update, updated_sources, saved, runs, changes, quiet>>
    /\ UNCHANGED schedvars
    /\ UNCHANGED unitvars

execute_fail ==
    /\ InTransaction
    /\ names' = saved.names
    /\ versions' = saved.versions
    /\ entries' = saved.entries
    /\ binaries' = saved.binaries
    /\ raised_events' = << >>
    /\ outcome' = "failed"
    /\ pc' = "done"
    /\ audit' = [EmptyAudit EXCEPT !.quiet = audit.quiet,
                                   !.dirty = (Store # saved)]
    /\ repository_files' = {}
    /\ repository' = "none"
    /\ position' = Finished
    /\ all_repository_entries' = {}
    /\ clean' = FALSE
    /\ UNCHANGED <<upstream, cached, force_update, updated_sources, saved,
                   runs, changes, quiet>>
    /\ UNCHANGED schedvars
    /\ UNCHANGED unitvars

\* the task object is dropped
task_exit ==
    /\ pc = "done"
    /\ pc' = "idle"
    /\ force_update' = FALSE
    /\ updated_sources' = << >>
    /\ repository_files' = {}
    /\ repository' = "none"
    /\ position' = Finished
    /\ all_repository_entries' = {}
    /\ raised_events' = << >>
    /\ saved' = EmptyStore
    /\ outcome' = "none"
    /\ audit' = EmptyAudit
    /\ UNCHANGED <<upstream, cached, names, versions, entries, binaries, runs,
                   changes, quiet, clean>>
    /\ UNCHANGED schedvars
    /\ UNCHANGED unitvars

NextSync ==
    \/ \E f \in FileSet, listing \in Listings : upstream_change(f, listing)
    \/ \E force \in BOOLEAN : execute_begin(force)
    \/ \E force \in BOOLEAN : update_repositories_fail(force)
    \/ \E r \in Repositories : next_repository(r)
    \/ update_sources_file
    \/ mark_sources_files_not_processed
    \/ update_repository_entries
    \/ remove_obsolete_versions
    \/ remove_obsolete_names
    \/ remove_obsolete_binaries
    \/ execute_fail
    \/ task_exit

SpecSync == InitSync /\ [][NextSync]_vars


(***************************************************************************)
(* Properties of UpdateRepositoriesTask.execute (SpecSync).                *)
(***************************************************************************)
RunSucceeded == pc = "done" /\ outcome = "ok"

RunFailed == pc = "done" /\ outcome = "failed"

EntriesOf(r, S) == {e \in S : e[1] = r}

\* the <<name, version>> pairs the cached Sources files of r list and the
\* vendor hook does not reject
Listed(r) ==
    {<<s.package, s.version>> :
        s \in {t \in UNION {Range(cached[f].listing) :
                              f \in get_sources_files_for_repository(r)} :
                 ~Rejected(t)}}

\* C4: when the repository-sync task fails anywhere in the reconciliation,
\* the record store (names, versions, entries, binary names) is the store
\* of before the run.
C4_FailedRunRestoresStore == RunFailed => Store = saved

\* a run failed after it had changed records
C4_Witness == RunFailed /\ audit.dirty

\* C6: a run that follows a successful run with no upstream change in
\* between (forced or not) raises no event and leaves the store as it was.
C6_SecondRunChangesNothing ==
    (RunSucceeded /\ audit.quiet /\ clean) =>
        (raised_events = << >> /\ Store = saved)

\* C7: after a successful run, the entries of every repository that had an
\* updated Sources file are exactly the versions its cached Sources files
\* list and the hook does not reject.
C7_EntriesMatchListing ==
    (RunSucceeded /\ clean) =>
        \A r \in audit.handled :
            {<<e[2], e[3]>> : e \in EntriesOf(r, entries)} = Listed(r)

\* C8: for every repository handled in a run, the entries created in the
\* run, the entries of before the run that were found again, and the entries
\* removed in the run are pairwise disjoint, and together they are the
\* entries of before the run and of after it.
C8_DiffPartition ==
    \A r \in audit.handled :
        LET before == EntriesOf(r, saved.entries)
            after == EntriesOf(r, entries)
            created == EntriesOf(r, audit.created)
            reconfirmed == EntriesOf(r, audit.touched \cap saved.entries)
            removed == EntriesOf(r, audit.removed)
        IN  /\ created \cap reconfirmed = {}
            /\ created \cap removed = {}
            /\ reconfirmed \cap removed = {}
            /\ created \cup reconfirmed \cup removed = before \cup after

\* a run of "stable" created, found again and removed entries, and both of
\* its Sources files were updated and list pkg-a 1.0
C8_Witness ==
    /\ RunSucceeded
    /\ "stable" \in audit.handled
    /\ EntriesOf("stable", audit.created) # {}
    /\ EntriesOf("stable", audit.touched \cap saved.entries) # {}
    /\ EntriesOf("stable", audit.removed) # {}
    /\ Len(SourcesFilesOf("stable")) = 2
    /\ \A f \in Range(SourcesFilesOf("stable")) : a1 \in Range(cached[f].listing)

\* C9: in a successful run the versions deleted are exactly those without
\* an entry in any repository once all repositories are handled, the names
\* deleted are exactly those without a version after that; and whenever no
\* run is under way every version has an entry and every name a version.
C9_CascadeGC ==
    /\ RunSucceeded =>
          /\ audit.gc_versions =
                {pv \in versions \cup audit.gc_versions :
                    ~\E e \in entries : <<e[2], e[3]>> = pv}
          /\ audit.gc_names =
                {n \in names \cup audit.gc_names :
                    ~\E pv \in versions : pv[1] = n}
    /\ (RunSucceeded \/ pc = "idle") =>
          /\ \A pv \in versions : \E e \in entries : <<e[2], e[3]>> = pv
          /\ \A n \in names : \E pv \in versions : pv[1] = n

\* a run deleted a version and a name, and kept a version that has entries
\* in two repositories
C9_Witness ==
    /\ RunSucceeded
    /\ audit.gc_versions # {}
    /\ audit.gc_names # {}
    /\ \E pv \in versions :
          Cardinality({e \in entries : <<e[2], e[3]>> = pv}) = 2

\* C10: "stable" held only pkg-a 1.0 and its updated listing shows pkg-a 2.0
\* instead: the run raises the four events of the replacement, in this
\* order, none of new-source-package, new-source-package-in-repository and
\* lost-source-package, and pkg-a is left with version 2.0 only.
C10_Replaced ==
    /\ saved = [names |-> {"pkg-a"}, versions |-> {<<"pkg-a", "1.0">>},
                entries |-> {<<"stable", "pkg-a", "1.0">>},
                binaries |-> {"bin-a"}]
    /\ audit.handled = {"stable"}
    /\ Listed("stable") = {<<"pkg-a", "2.0">>}
    /\ \E f \in Range(updated_sources) : a2 \in Range(cached[f].listing)

C10_VersionReplacement ==
    (RunSucceeded /\ C10_Replaced) =>
        /\ raised_events =
              << Event("new-source-package-version",
                       [name |-> "pkg-a", version |-> "2.0",
                        pk |-> <<"pkg-a", "2.0">>]),
                 Event("new-source-package-version-in-repository",
                       [name |-> "pkg-a", version |-> "2.0",
                        repository |-> "stable"]),
                 Event("lost-source-package-version-in-repository",
                       [name |-> "pkg-a", version |-> "1.0",
                        repository |-> "stable"]),
                 Event("lost-version-of-source-package",
                       [name |-> "pkg-a", version |-> "1.0"]) >>
        /\ names = {"pkg-a"}
        /\ versions = {<<"pkg-a", "2.0">>}

C10_Witness == RunSucceeded /\ C10_Replaced

\* no repository lists two versions of one name
C11_OneVersionPerName ==
    \A r \in Repositories :
        \A s, t \in UNION {Range(cached[f].listing) :
                             f \in get_sources_files_for_repository(r)} :
            s.package = t.package => s = t

\* C11: after a successful run, forced or not, every repository has an
\* entry for every version its current listing holds: a listing fetched by
\* a run that failed is reconciled by the next run that succeeds.
C11_ChangedListingReconciled ==
    (RunSucceeded /\ C11_OneVersionPerName) =>
        \A r \in Repositories :
            Listed(r) \subseteq {<<e[2], e[3]>> : e \in EntriesOf(r, entries)}


\* the number of places of sequence s that hold x
Count(s, x) == Cardinality({i \in 1..Len(s) : s[i] = x})

\* the events of the run with the given name
EventsNamed(name) == SelectSeq(raised_events, LAMBDA e : e.name = name)

\* C12: once the files of a repository are handled, the entries the
\* repository had before the run that were not touched in the run are
\* exactly the entries removed, each with exactly one
\* lost-source-package-version-in-repository event carrying its name, version
\* and repository and no such event for any other entry; every touched
\* entry is still there.
C12_StaleEntriesRemoved ==
    \A r \in audit.handled :
        LET removed == EntriesOf(r, audit.removed)
            touched == EntriesOf(r, audit.touched)
        IN  /\ removed = EntriesOf(r, saved.entries) \ touched
            /\ removed \cap entries = {}
            /\ touched \subseteq entries
            /\ \A e \in removed : Count(raised_events, LostInRepository(e)) = 1
            /\ \A i \in 1..Len(raised_events) :
                  (/\ raised_events[i].name
                        = "lost-source-package-version-in-repository"
                   /\ raised_events[i].arguments.repository = r)
                  => \E e \in removed : raised_events[i] = LostInRepository(e)

\* the files of "stable" are handled: an entry was removed, another was
\* found again and kept
C12_Witness ==
    /\ "stable" \in audit.handled
    /\ EntriesOf("stable", audit.removed) # {}
    /\ EntriesOf("stable", audit.touched \cap saved.entries) # {}

\* the entries of before the run that an un-updated cached Sources file of
\* repository r lists
ListedUnupdated(r) ==
    {e \in EntriesOf(r, saved.entries) :
        \E f \in get_sources_files_for_repository(r) \ Range(updated_sources) :
            \E i \in 1..Len(cached[f].listing) :
                /\ cached[f].listing[i].package = e[2]
                /\ cached[f].listing[i].version = e[3]}

\* C13: once the files of a repository are handled, every entry it had
\* whose package and version an un-updated cached Sources file of the
\* repository lists is still there, and no
\* lost-source-package-version-in-repository event was raised for it.
C13_UnupdatedListingKept ==
    \A r \in audit.handled :
        \A e \in ListedUnupdated(r) :
            /\ e \in entries
            /\ Count(raised_events, LostInRepository(e)) = 0

NewVersionInRepository(e) ==
    Event("new-source-package-version-in-repository",
          [name |-> e[2], version |-> e[3], repository |-> e[1]])

NewInRepository(n, r) ==
    Event("new-source-package-in-repository", [name |-> n, repository |-> r])

\* the events raised by the step
RaisedByStep ==
    SubSeq(raised_events', Len(raised_events) + 1, Len(raised_events'))

\* the step handles an accepted stanza
AcceptedStanzaStep ==
    /\ pc = "sources"
    /\ pc' \in {"sources", "mark"}
    /\ ~Rejected(CurrentStanza)

C14_StanzaStep ==
    AcceptedStanzaStep =>
        LET e == <<repository, CurrentStanza.package, CurrentStanza.version>>
            created == e \notin entries /\ e \in entries'
            first == ~\E x \in entries : x[1] = e[1] /\ x[2] = e[2]
            versionInRepo ==
                SelectSeq(RaisedByStep, LAMBDA x :
                    x.name = "new-source-package-version-in-repository")
            inRepo ==
                SelectSeq(RaisedByStep, LAMBDA x :
                    x.name = "new-source-package-in-repository")
        IN  /\ e \in entries'
            /\ versionInRepo =
                  IF created THEN <<NewVersionInRepository(e)>> ELSE << >>
            /\ inRepo =
                  IF first THEN <<NewInRepository(e[2], e[1])>> ELSE << >>

\* C14: handling an accepted stanza raises
\* new-source-package-version-in-repository if and only if it creates the
\* entry of the version in the repository, and
\* new-source-package-in-repository if and only if the repository has, at
\* that moment, no entry of any version of the package.
C14_InRepositoryEvents == [][C14_StanzaStep]_vars

\* in one run a stanza created the first entry of its package in a
\* repository, another added a version to a package the repository had,
\* and another found its entry again
C14_Witness ==
    /\ pc = "mark"
    /\ \E e \in audit.created : Count(raised_events, NewInRepository(e[2], e[1])) = 1
    /\ \E e \in audit.created : Count(raised_events, NewInRepository(e[2], e[1])) = 0
    /\ audit.touched \cap saved.entries # {}

NewSourcePackage(n) == Event("new-source-package", [name |-> n])

NewSourcePackageVersion(pv) ==
    Event("new-source-package-version",
          [name |-> pv[1], version |-> pv[2], pk |-> pv])

C15_StanzaStep ==
    AcceptedStanzaStep =>
        LET n == CurrentStanza.package
            pv == <<n, CurrentStanza.version>>
            newName ==
                SelectSeq(RaisedByStep, LAMBDA x : x.name = "new-source-package")
            newVersion ==
                SelectSeq(RaisedByStep, LAMBDA x :
                    x.name = "new-source-package-version")
            newBinary ==
                SelectSeq(RaisedByStep, LAMBDA x : x.name = "new-binary-package")
        IN  /\ n \in names' /\ pv \in versions'
            /\ names' \ names \subseteq {n}
            /\ versions' \ versions \subseteq {pv}
            /\ newName = IF n \notin names
                         THEN <<NewSourcePackage(n)>> ELSE << >>
            /\ newVersion = IF pv \notin versions
                            THEN <<NewSourcePackageVersion(pv)>> ELSE << >>
            /\ pv \in versions => (binaries' = binaries /\ newBinary = << >>)

C15_OncePerRun ==
    pc = "idle" \/
    LET newName == EventsNamed("new-source-package")
        newVersion == EventsNamed("new-source-package-version")
    IN  /\ Range(newName) = {NewSourcePackage(n) : n \in names \ saved.names}
        /\ Len(newName) = Cardinality(names \ saved.names)
        /\ Range(newVersion) =
              {NewSourcePackageVersion(pv) : pv \in versions \ saved.versions}
        /\ Len(newVersion) = Cardinality(versions \ saved.versions)

\* C15: handling an accepted stanza raises new-source-package exactly when
\* it creates the name and new-source-package-version exactly when it
\* creates the version, and extracts the data of the version (its binary
\* names) only then; over a run each created name and each created version
\* has exactly one such event, in however many files and repositories it
\* is listed.
C15_CreationEvents == [](C15_OncePerRun) /\ [][C15_StanzaStep]_vars

\* a run created a version that two repositories list, and found a version
\* of before the run again
C15_Witness ==
    /\ RunSucceeded
    /\ \E pv \in versions \ saved.versions :
          Cardinality({e \in audit.created : <<e[2], e[3]>> = pv}) = 2
    /\ saved.versions \cap versions # {}

\* the stage of execute an event belongs to: 0 the handling of the
\* repositories, then the three query sets of _remove_obsolete_packages
Stage(e) ==
    CASE e.name = "lost-version-of-source-package" -> 1
      [] e.name = "lost-source-package" -> 2
      [] e.name = "lost-binary-package" -> 3
      [] OTHER -> 0

\* the place of the first occurrence of x in s, 0 when there is none
IndexOf(s, x) ==
    IF \E i \in 1..Len(s) : s[i] = x
    THEN CHOOSE i \in 1..Len(s) : s[i] = x /\ \A j \in 1..(i - 1) : s[j] # x
    ELSE 0

\* C16: the events of a run come in the order of its stages: those of the
\* repositories, then every lost-version-of-source-package, then every
\* lost-source-package, then every lost-binary-package, each raised once;
\* and a package of before the run whose last version is gone after a
\* successful run has one lost-version-of-source-package event for each of
\* its versions and, after them, one lost-source-package event of its own.
C16_GarbageCollectionOrder ==
    /\ \A i \in 1..(Len(raised_events) - 1) :
          Stage(raised_events[i]) <= Stage(raised_events[i + 1])
    /\ \A i \in 1..(Len(raised_events) - 1) :
          Stage(raised_events[i]) > 0 =>
              \A j \in (i + 1)..Len(raised_events) :
                  raised_events[i] # raised_events[j]
    /\ RunSucceeded =>
          \A n \in saved.names :
              LET lostName == Event("lost-source-package", [name |-> n])
              IN  (~\E pv \in versions : pv[1] = n) =>
                      /\ n \notin names
                      /\ Count(raised_events, lostName) = 1
                      /\ \A pv \in saved.versions :
                            LET lostVersion ==
                                    Event("lost-version-of-source-package",
                                          [name |-> pv[1], version |-> pv[2]])
                            IN  pv[1] = n =>
                                    /\ Count(raised_events, lostVersion) = 1
                                    /\ IndexOf(raised_events, lostVersion)
                                          < IndexOf(raised_events, lostName)

\* a run lost the last version of a package and its binary name, after it
\* had raised events for a repository
C16_Witness ==
    /\ RunSucceeded
    /\ \E n \in saved.names : Count(raised_events, Event("lost-source-package", [name |-> n])) = 1
    /\ EventsNamed("lost-binary-package") # << >>
    /\ EventsNamed("new-source-package-version-in-repository") # << >>

\* the events of the step with the given name are exactly one
\* F(x) for each x of S
RaisedFor(name, F(_), S) ==
    /\ Len(SelectSeq(RaisedByStep, LAMBDA e : e.name = name)) = Cardinality(S)
    /\ \A x \in S : Count(RaisedByStep, F(x)) = 1

C17_NewBinary(b) == Event("new-binary-package", [name |-> b])

C17_LostInRepository(e) ==
    Event("lost-source-package-version-in-repository",
          [name |-> e[2], version |-> e[3], repository |-> e[1]])

C17_LostVersion(pv) ==
    Event("lost-version-of-source-package", [name |-> pv[1], version |-> pv[2]])

C17_LostPackage(n) == Event("lost-source-package", [name |-> n])

C17_LostBinary(b) == Event("lost-binary-package", [name |-> b])

\* a step of execute inside the transaction that does not fail
C17_Step ==
    (InTransaction /\ outcome' # "failed") =>
        /\ RaisedFor("new-source-package", NewSourcePackage, names' \ names)
        /\ RaisedFor("new-source-package-version", NewSourcePackageVersion,
                     versions' \ versions)
        /\ RaisedFor("new-source-package-version-in-repository",
                     NewVersionInRepository, entries' \ entries)
        /\ RaisedFor("new-binary-package", C17_NewBinary, binaries' \ binaries)
        /\ RaisedFor("lost-source-package-version-in-repository",
                     C17_LostInRepository, entries \ entries')
        /\ RaisedFor("lost-version-of-source-package", C17_LostVersion,
                     versions \ versions')
        /\ RaisedFor("lost-source-package", C17_LostPackage, names \ names')
        /\ RaisedFor("lost-binary-package", C17_LostBinary,
                     binaries \ binaries')

C24_ForcedRunUpdatesAll ==
    /\ (pc # "idle" /\ force_update /\ outcome # "failed") =>
            Range(updated_sources) = FileSet
    /\ (RunSucceeded /\ force_update) =>
            /\ audit.handled = Repositories
            /\ \A r \in Repositories :
                  {<<e[2], e[3]>> : e \in EntriesOf(r, entries)} = Listed(r)
    /\ (pc # "idle" /\ ~force_update /\ audit.quiet /\ outcome # "failed") =>
            updated_sources = << >>

\* a forced run that follows a successful run with no upstream change in
\* between has succeeded, with entries in its store
C24_Witness ==
    /\ RunSucceeded
    /\ force_update
    /\ audit.quiet
    /\ entries # {}

\* no repository lists, in stanzas the hook accepts, two versions of one
\* name
C26_AcceptedDistinct ==
    \A r \in Repositories :
        \A s, t \in UNION {Range(cached[f].listing) :
                             f \in get_sources_files_for_repository(r)} :
            (~Rejected(s) /\ ~Rejected(t) /\ s.package = t.package) => s = t

\* C26: a stanza the vendor hook rejects has no effect on the records and
\* events of a run: after a successful run, in a store no failed run has
\* touched, every version that the accepted stanzas of a handled repository
\* list has its entry, and no lost-source-package-version-in-repository
\* event was raised for it, whatever rejected stanzas the files hold.
C26_RejectedStanzaWithoutEffect ==
    (RunSucceeded /\ clean /\ C26_AcceptedDistinct) =>
        \A r \in audit.handled :
            \A s \in UNION {Range(cached[f].listing) :
                               f \in get_sources_files_for_repository(r)} :
                s.allow =>
                    /\ <<r, s.package, s.version>> \in entries
                    /\ \A i \in 1..Len(raised_events) :
                          raised_events[i] #
                              [name |-> "lost-source-package-version-in-repository",
                               arguments |-> [name |-> s.package,
                                              version |-> s.version,
                                              repository |-> r]]

\* the pass of _update_sources_file over a rejected stanza, when the run
\* does not fail there, changes no record and raises no event
C26_RejectedStep ==
    [][(pc = "sources" /\ ~CurrentStanza.allow /\ outcome' # "failed") =>
          UNCHANGED <<names, versions, entries, binaries,
                      all_repository_entries, raised_events>>]_vars

\* C27: a Sources file that lists one package name with two versions counts
\* for its first version of the name only: after a successful run, in a
\* store no failed run has touched, the entries of a handled repository are
\* the versions that come first for their name in one of its cached files.
C27_FirstSeenWins ==
    (RunSucceeded /\ clean) =>
        \A r \in audit.handled :
            {<<e[2], e[3]>> : e \in EntriesOf(r, entries)} =
                UNION {{<<cached[f].listing[i].package,
                          cached[f].listing[i].version>> :
                            i \in {k \in 1..Len(cached[f].listing) :
                                     /\ cached[f].listing[k].allow
                                     /\ \A j \in 1..(k - 1) :
                                           cached[f].listing[j].package #
                                               cached[f].listing[k].package}} :
                       f \in get_sources_files_for_repository(r)}

\* the repositories none of whose Sources files the run reports as updated
C33_NotUpdated ==
    {r \in Repositories :
        \A i \in 1..Len(updated_sources) :
            (r = "testing") # (updated_sources[i] = "testing_main_Sources")}

\* C33: throughout a run, a repository none of whose Sources files was
\* reported as updated has the entries it had before the run, no event of
\* the run names it, and every version and name its entries refer to is
\* still stored.
C33_UntouchedRepository ==
    pc # "idle" =>
        \A r \in C33_NotUpdated :
            /\ {e \in entries : e[1] = r} = {e \in saved.entries : e[1] = r}
            /\ \A i \in 1..Len(raised_events) :
                  "repository" \in DOMAIN raised_events[i].arguments =>
                      raised_events[i].arguments.repository # r
            /\ \A e \in entries :
                  e[1] = r => (<<e[2], e[3]>> \in versions /\ e[2] \in names)

\* a run has created and removed entries of "stable" and removed a version,
\* while "testing", which has entries, had no updated file
C33_Witness ==
    /\ RunSucceeded
    /\ "testing" \in C33_NotUpdated
    /\ \E e \in entries : e[1] = "testing"
    /\ \E e \in audit.created : e[1] = "stable"
    /\ \E e \in audit.removed : e[1] = "stable"
    /\ \E i \in 1..Len(raised_events) :
          raised_events[i].name = "lost-version-of-source-package"

\* C34: a new-source-package-in-repository event differs in package name or
\* repository from each such event raised before it in the run, however
\* many versions of the package the run adds to the repository; and the
\* step that raises one starts from a store in which the repository has
\* no entry of any version of the package.
C34_OncePerPackageAndRepository ==
    [][\A i \in (Len(raised_events) + 1)..Len(raised_events') :
          raised_events'[i].name = "new-source-package-in-repository" =>
              /\ \A j \in 1..(i - 1) :
                    raised_events'[j].name = "new-source-package-in-repository" =>
                        \/ raised_events'[j].arguments.name
                              # raised_events'[i].arguments.name
                        \/ raised_events'[j].arguments.repository
                              # raised_events'[i].arguments.repository
              /\ ~\E e \in entries :
                    /\ e[1] = raised_events'[i].arguments.repository
                    /\ e[2] = raised_events'[i].arguments.name]_vars

\* a run has added two versions of pkg-a to a repository and raised the
\* event of the package for it
C34_Witness ==
    /\ RunSucceeded
    /\ \E r \in Repositories :
          /\ \A v \in {"1.0", "2.0"} :
                \E i \in 1..Len(raised_events) :
                    raised_events[i] =
                        [name |-> "new-source-package-version-in-repository",
                         arguments |-> [name |-> "pkg-a", version |-> v,
                                        repository |-> r]]
          /\ \E i \in 1..Len(raised_events) :
                raised_events[i] =
                    [name |-> "new-source-package-in-repository",
                     arguments |-> [name |-> "pkg-a", repository |-> r]]

\* C35: when execute of the repository task is over, every package name
\* carried by an event that the Update... tasks depend on is either no
\* longer a stored source package name, or has a stored version that has
\* an entry in a repository.
C35_EventPackagesHaveEntries ==
    pc = "done" =>
        \A i \in 1..Len(raised_events) :
            raised_events[i].name \in
                {"new-source-package-version-in-repository",
                 "lost-source-package-version-in-repository"} =>
                \/ raised_events[i].arguments.name \notin names
                \/ \E pv \in versions :
                      /\ pv[1] = raised_events[i].arguments.name
                      /\ \E e \in entries : e[2] = pv[1] /\ e[3] = pv[2]

\* a successful run has raised an event for a package that is gone and an
\* event for a package that has an entry
C35_Witness ==
    /\ RunSucceeded
    /\ \E i \in 1..Len(raised_events) :
          /\ raised_events[i].name = "lost-source-package-version-in-repository"
          /\ raised_events[i].arguments.name \notin names
    /\ \E i \in 1..Len(raised_events) :
          /\ raised_events[i].name = "new-source-package-version-in-repository"
          /\ raised_events[i].arguments.name \in names

(***************************************************************************)
(* The keys of event.arguments the execute method of task t reads in an    *)
(* event of the given name that it receives.                               *)
(***************************************************************************)
ArgumentsRead(t, name) ==
    CASE t = "GenerateNewsFromRepositoryUpdates" ->
            IF name = "source-files-extracted" THEN {}
            ELSE IF name = "new-source-package-version"
                 THEN {"name", "version"}
                 ELSE {"name", "version", "repository"}
      [] t = "ExtractSourcePackageFiles" -> {"pk"}
      [] t \in {"UpdatePackageGeneralInformation",
                "UpdateVersionInformation",
                "UpdateSourceToBinariesInformation"} -> {"name"}
      [] OTHER -> {}

\* the argument keys the event schema requires for an event name
RequiredArguments(name) ==
    CASE name = "new-source-package-version" -> {"name", "version", "pk"}
      [] name \in {"new-source-package-version-in-repository",
                   "lost-source-package-version-in-repository"} ->
            {"name", "version", "repository"}
      [] name = "new-source-package-in-repository" -> {"name", "repository"}
      [] name = "lost-version-of-source-package" -> {"name", "version"}
      [] name \in {"new-source-package", "new-binary-package",
                   "lost-source-package", "lost-binary-package"} -> {"name"}
      [] OTHER -> {}

\* the argument keys an event of each name has to carry: those of the schema
\* and those the tasks depending on the name read
C19_Required ==
    [name \in UNION {PRODUCES_EVENTS(t) : t \in Tasks} |->
        RequiredArguments(name)
            \cup UNION {ArgumentsRead(t, name) :
                           t \in {u \in Tasks : name \in DEPENDS_ON_EVENTS(u)}}]

\* C19: every raised event carries the argument keys the schema requires
\* for its name, and so every key a task depending on the event reads.
C19_RequiredArgumentsPresent ==
    \A i \in 1..Len(raised_events) :
        C19_Required[raised_events[i].name]
            \subseteq DOMAIN raised_events[i].arguments

\* a run raised an event of a new version, of a version new in a repository
\* and of a version lost in a repository
C19_Witness ==
    /\ RunSucceeded
    /\ Len(EventsNamed("new-source-package-version")) > 0
    /\ Len(EventsNamed("new-source-package-version-in-repository")) > 0
    /\ Len(EventsNamed("lost-source-package-version-in-repository")) > 0

(***************************************************************************)
(* run_task: the tasks a run of task t consists of, and their order.       *)
(***************************************************************************)
\* task p produces an event task t depends on
Feeds(p, t) == PRODUCES_EVENTS(p) \cap DEPENDS_ON_EVENTS(t) # {}

\* the producers needed to feed the tasks of S, transitively
RECURSIVE Closure(_)
Closure(S) ==
    LET more == S \cup {p \in Tasks : \E t \in S : Feeds(p, t)}
    IN  IF more = S THEN S ELSE Closure(more)

\* a task that starts without waiting for the tasks that feed it
Ready_NotWaiting(t) ==
    /\ t \in job
    /\ status[t] = "Pending"

\* a task of the run that may start: it has not started and every task of
\* the run that feeds it has finished
Ready(t) ==
    /\ t \in job
    /\ status[t] = "Pending"
    /\ \A p \in job : Feeds(p, t) => status[p] \in {"Succeeded", "Failed"}

\* the events of the run before are kept
NewEventLog_Kept == event_log

\* the log of a run starts empty and goes with the run
NewEventLog == << >>

\* no task of the run is executing
NoneExecuting == \A u \in job : status[u] # "Running"

\* every pending task of the run is started at once
MayStart_AtOnce(t) == t \in job /\ status[t] = "Pending"

\* the run executes its tasks one after the other, in the thread of handle:
\* a task starts when no task executes and the tasks that feed it have
\* finished
MayStart(t) == NoneExecuting /\ Ready(t)

\* every event of the log is handed to the task
EventsFor_EveryEvent(t) == event_log

\* the events of the log handed to process_event of task t
EventsFor(t) ==
    SelectSeq(event_log, LAMBDA e : e.name \in DEPENDS_ON_EVENTS(t))

\* BaseTask.clear_events of task t
clear_events(t) == SelectSeq(event_log, LAMBDA e : e.producer # t)

RaisedBy(t) == SelectSeq(event_log, LAMBDA e : e.producer = t)

\* a mapping without force_update sets the default again
PackageUpdateTask_set_parameters_Default(previous, parameters) ==
    IF "force_update" \in DOMAIN parameters
    THEN parameters.force_update
    ELSE FALSE

\* PackageUpdateTask.set_parameters: force_update of the task after the
\* call, previous being its value before
PackageUpdateTask_set_parameters(previous, parameters) ==
    IF "force_update" \in DOMAIN parameters
    THEN parameters.force_update
    ELSE previous

\* set_parameters of a task of a run, whose force_update is the default of
\* PackageUpdateTask.__init__; other tasks take no parameter
set_parameters(t, parameters) ==
    IF t \in PackageUpdateTasks
    THEN PackageUpdateTask_set_parameters(FALSE, parameters)
    ELSE FALSE

\* Command.handle: additional_arguments (None is modelled as no parameters)
additional_arguments ==
    IF options_force THEN [force_update |-> TRUE] ELSE << >>

(***************************************************************************)
(* Command.handle                                                          *)
(***************************************************************************)
SyncUntouched ==
    /\ upstream = [f \in FileSet |-> << >>]
    /\ cached = clear_cache
    /\ names = {} /\ versions = {} /\ entries = {} /\ binaries = {}
    /\ TaskIdle
    /\ runs = 0 /\ changes = 0 /\ quiet = FALSE /\ clean = TRUE

ArgLists == UNION {[1..n -> Names] : n \in 0..MaxArgs}

Init ==
    /\ args \in ArgLists
    /\ options_force \in BOOLEAN
    /\ arg_index = 1
    /\ hpc = "loop"
    /\ attempts = << >>
    /\ executions = [t \in Tasks |-> 0]
    /\ NoJob
    /\ NoCall
    /\ SyncUntouched

\* task_name = task_name.decode('utf-8') raises: the error leaves handle
handle_decode_error ==
    /\ hpc = "loop"
    /\ arg_index <= Len(args)
    /\ args[arg_index] = NotUtf8
    /\ hpc' = "abort"
    /\ UNCHANGED <<executions, args, emitted, options_force, arg_index, attempts, job, status,
                   task_force_update, event_log, received, started>>
    /\ UNCHANGED syncvars
    /\ UNCHANGED unitvars

\* run_task raises for a name no task has; handle catches and goes on
run_task_not_found ==
    /\ hpc = "loop"
    /\ arg_index <= Len(args)
    /\ args[arg_index] # NotUtf8
    /\ args[arg_index] \notin Tasks
    /\ attempts' = Append(attempts, args[arg_index])
    /\ arg_index' = arg_index + 1
    /\ UNCHANGED <<executions, args, emitted, options_force, hpc, job, status, task_force_update,
                   event_log, received, started>>
    /\ UNCHANGED syncvars
    /\ UNCHANGED unitvars

\* run_task(task_name, additional_arguments) sets up the run
run_task ==
    /\ hpc = "loop"
    /\ arg_index <= Len(args)
    /\ args[arg_index] \in Tasks
    /\ attempts' = Append(attempts, args[arg_index])
    /\ job' = Closure({args[arg_index]})
    /\ status' = [t \in Tasks |->
                    IF t \in Closure({args[arg_index]}) THEN "Pending" ELSE "None"]
    /\ task_force_update' =
          [t \in Tasks |-> IF t \in Closure({args[arg_index]})
                           THEN set_parameters(t, additional_arguments)
                           ELSE FALSE]
    /\ event_log' = NewEventLog
    /\ received' = [t \in Tasks |-> << >>]
    /\ emitted' = [t \in Tasks |-> 0]
    /\ started' = << >>
    /\ hpc' = "run"
    /\ UNCHANGED <<executions, args, options_force, arg_index>>
    /\ UNCHANGED syncvars
    /\ UNCHANGED unitvars

\* the next task of the run starts: process_event is called for each event
\* of the log it depends on
task_start(t) ==
    /\ hpc = "run"
    /\ MayStart(t)
    /\ status' = [status EXCEPT ![t] = "Running"]
    /\ received' = [received EXCEPT ![t] = EventsFor(t)]
    /\ started' = Append(started, t)
    /\ executions' = [executions EXCEPT ![t] = @ + 1]
    /\ UNCHANGED <<args, emitted, options_force, arg_index, hpc, attempts, job,
                   task_force_update, event_log>>
    /\ UNCHANGED syncvars
    /\ UNCHANGED unitvars

\* the events the runs of the model see raised by UpdateRepositoriesTask:
\* one no task depends on, one ExtractSourcePackageFiles depends on, one
\* the Update... tasks depend on
RaisedInRuns ==
    {"new-source-package", "new-source-package-version",
     "lost-source-package-version-in-repository"}

\* UpdateRepositoriesTask.execute raises one of its events
UpdateRepositoriesTask_raise_event(name) ==
    /\ hpc = "run"
    /\ status["UpdateRepositoriesTask"] = "Running"
    /\ name \in UpdateRepositoriesTask_PRODUCES_EVENTS
    /\ emitted["UpdateRepositoriesTask"] < MaxEmit
    /\ emitted' = [emitted EXCEPT !["UpdateRepositoriesTask"] = @ + 1]
    /\ event_log' = Append(event_log,
                           [name |-> name, producer |-> "UpdateRepositoriesTask",
                            run |-> arg_index])
    /\ UNCHANGED <<executions, args, options_force, arg_index, hpc, attempts, job, status,
                   task_force_update, received, started>>
    /\ UNCHANGED syncvars
    /\ UNCHANGED unitvars

\* ExtractSourcePackageFiles.execute: the extraction, whose errors are
\* caught for each package, then the event, its last statement
ExtractSourcePackageFiles_execute ==
    /\ hpc = "run"
    /\ status["ExtractSourcePackageFiles"] = "Running"
    /\ event_log' = Append(event_log,
                           [name |-> "source-files-extracted",
                            producer |-> "ExtractSourcePackageFiles",
                            run |-> arg_index])
    /\ emitted' = [emitted EXCEPT !["ExtractSourcePackageFiles"] = @ + 1]
    /\ status' = [status EXCEPT !["ExtractSourcePackageFiles"] = "Succeeded"]
    /\ UNCHANGED <<executions, args, options_force, arg_index, hpc, attempts, job,
                   task_force_update, received, started>>
    /\ UNCHANGED syncvars
    /\ UNCHANGED unitvars

\* execute of another task returns
task_finish(t) ==
    /\ hpc = "run"
    /\ status[t] = "Running"
    /\ t # "ExtractSourcePackageFiles"
    /\ status' = [status EXCEPT ![t] = "Succeeded"]
    /\ UNCHANGED <<executions, args, emitted, options_force, arg_index, hpc, attempts, job,
                   task_force_update, event_log, received, started>>
    /\ UNCHANGED syncvars
    /\ UNCHANGED unitvars

\* execute of a task raises: a task wrapped in clear_all_events_on_exception
\* clears its events; the run goes on with the other tasks
task_fail(t) ==
    /\ hpc = "run"
    /\ status[t] = "Running"
    /\ status' = [status EXCEPT ![t] = "Failed"]
    /\ event_log' = IF t \in ClearsEventsOnException
                    THEN clear_events(t) ELSE event_log
    /\ UNCHANGED <<executions, args, emitted, options_force, arg_index, hpc, attempts, job,
                   task_force_update, received, started>>
    /\ UNCHANGED syncvars
    /\ UNCHANGED unitvars

\* every task of the run has been executed: run_task returns
run_task_return ==
    /\ hpc = "run"
    /\ \A t \in job : status[t] \in {"Succeeded", "Failed"}
    /\ hpc' = "ran"
    /\ UNCHANGED <<executions, args, emitted, options_force, arg_index, attempts, job, status,
                   task_force_update, event_log, received, started>>
    /\ UNCHANGED syncvars
    /\ UNCHANGED unitvars

\* the loop of handle goes to the next name
handle_next ==
    /\ hpc = "ran"
    /\ arg_index' = arg_index + 1
    /\ hpc' = "loop"
    /\ job' = {}
    /\ status' = [t \in Tasks |-> "None"]
    /\ task_force_update' = [t \in Tasks |-> FALSE]
    /\ event_log' = NewEventLog
    /\ received' = [t \in Tasks |-> << >>]
    /\ emitted' = [t \in Tasks |-> 0]
    /\ started' = << >>
    /\ UNCHANGED <<executions, args, options_force, attempts>>
    /\ UNCHANGED syncvars
    /\ UNCHANGED unitvars

handle_return ==
    /\ hpc = "loop"
    /\ arg_index > Len(args)
    /\ hpc' = "exit"
    /\ UNCHANGED <<executions, args, emitted, options_force, arg_index, attempts, job, status,
                   task_force_update, event_log, received, started>>
    /\ UNCHANGED syncvars
    /\ UNCHANGED unitvars

Next ==
    \/ handle_decode_error
    \/ run_task_not_found
    \/ run_task
    \/ \E t \in Tasks : task_start(t)
    \/ \E name \in RaisedInRuns : UpdateRepositoriesTask_raise_event(name)
    \/ ExtractSourcePackageFiles_execute
    \/ \E t \in Tasks : task_finish(t)
    \/ \E t \in Tasks : task_fail(t)
    \/ run_task_return
    \/ handle_next
    \/ handle_return

Spec == Init /\ [][Next]_vars


(***************************************************************************)
(* Properties of Spec.                                                     *)
(***************************************************************************)
Requested == args[arg_index]

Finished_(t) == status[t] \in {"Succeeded", "Failed"}

\* position of task t in the order of starting, 0 when it has not started
StartedAt(t) ==
    IF t \in Range(started)
    THEN CHOOSE i \in 1..Len(started) : started[i] = t
    ELSE 0

\* S holds, with each of its tasks, every task that feeds it
ProducerClosed(S) == \A t \in S : \A p \in Tasks : Feeds(p, t) => p \in S

\* the least producer-closed set of tasks that holds task t
Needed(t) ==
    CHOOSE S \in SUBSET Tasks :
        /\ t \in S
        /\ ProducerClosed(S)
        /\ \A T \in SUBSET Tasks : (t \in T /\ ProducerClosed(T)) => S \subseteq T

\* C1: when run_task returns, the tasks it executed are exactly the
\* requested task and, transitively, the producers of the events the
\* executed tasks depend on, each executed once: none outside this set ran
\* and none inside it was skipped.
C1_ExecutedIsClosure ==
    hpc = "ran" =>
        /\ LET needed == Needed(Requested)
           IN  /\ Range(started) = needed
               /\ \A t \in Tasks : Finished_(t) <=> t \in needed
        /\ Len(started) = Cardinality(Range(started))
        /\ Requested = "UpdateRepositoriesTask" =>
              Range(started) = {"UpdateRepositoriesTask"}
        /\ Requested = "UpdatePackageGeneralInformation" =>
              Range(started) = {"UpdateRepositoriesTask",
                                "UpdatePackageGeneralInformation"}
        /\ Requested = "ExtractSourcePackageFiles" =>
              Range(started) = {"UpdateRepositoriesTask",
                                "ExtractSourcePackageFiles"}
        /\ Requested = "GenerateNewsFromRepositoryUpdates" =>
              Range(started) = {"UpdateRepositoriesTask",
                                "ExtractSourcePackageFiles",
                                "GenerateNewsFromRepositoryUpdates"}

\* the run of GenerateNewsFromRepositoryUpdates, whose closure has a
\* producer that itself needs a producer, has returned
C1_Witness ==
    /\ hpc = "ran"
    /\ Requested = "GenerateNewsFromRepositoryUpdates"
    /\ Cardinality(Range(started)) = 3

\* C2: whenever a task B of a run has started, every task A of the run
\* that produces an event B depends on has completed and started before B;
\* and every event B received was raised by a task that completed and
\* started before B.
C2_ProducersFirst ==
    \A b \in job :
        status[b] # "Pending" =>
            /\ \A a \in job :
                  Feeds(a, b) =>
                      /\ Finished_(a)
                      /\ 0 < StartedAt(a) /\ StartedAt(a) < StartedAt(b)
            /\ \A i \in 1..Len(received[b]) :
                  /\ received[b][i].name \in DEPENDS_ON_EVENTS(b)
                  /\ Finished_(received[b][i].producer)
                  /\ StartedAt(received[b][i].producer) < StartedAt(b)

\* GenerateNewsFromRepositoryUpdates runs and has received an event of each
\* of its two producers
C2_Witness ==
    /\ status["GenerateNewsFromRepositoryUpdates"] = "Running"
    /\ \E i \in 1..Len(received["GenerateNewsFromRepositoryUpdates"]) :
          received["GenerateNewsFromRepositoryUpdates"][i].producer
              = "UpdateRepositoriesTask"
    /\ \E i \in 1..Len(received["GenerateNewsFromRepositoryUpdates"]) :
          received["GenerateNewsFromRepositoryUpdates"][i].producer
              = "ExtractSourcePackageFiles"

\* C3: once the execute of a task has raised, the event log of the run has
\* no event of that task, however many it had raised, and no task has
\* received one; the events of a task that did not fail all stay in the log.
C3_FailedTaskLeavesNoEvent ==
    \A t \in job :
        /\ status[t] = "Failed" =>
              /\ Len(RaisedBy(t)) = 0
              /\ \A b \in Tasks : \A i \in 1..Len(received[b]) :
                    received[b][i].producer # t
        /\ status[t] # "Failed" => Len(RaisedBy(t)) = emitted[t]

\* UpdateRepositoriesTask failed after it had raised events, and a task
\* that depends on them has run since
C3_Witness ==
    /\ status["UpdateRepositoriesTask"] = "Failed"
    /\ emitted["UpdateRepositoriesTask"] = MaxEmit
    /\ status["UpdatePackageGeneralInformation"] = "Succeeded"

\* C5: when handle is left, run_task has been called once for every name
\* given, in the order given.
C5_EveryNameAttempted ==
    hpc \in {"exit", "abort"} => attempts = args

\* C20: every event name a task of the registry depends on is produced by a
\* task of the registry; in particular no task of a job waits for an event
\* name that no task produces.
C20_NoDanglingDependency ==
    \A t \in Tasks \cup job :
        \A name \in DEPENDS_ON_EVENTS(t) :
            \E p \in Tasks : name \in PRODUCES_EVENTS(p)

\* the task with the most dependencies runs in a job that holds a producer
\* of each event name it depends on, and has received the event of
\* ExtractSourcePackageFiles
C20_Witness ==
    /\ status["GenerateNewsFromRepositoryUpdates"] = "Running"
    /\ \A name \in DEPENDS_ON_EVENTS("GenerateNewsFromRepositoryUpdates") :
          \E p \in job : name \in PRODUCES_EVENTS(p)
    /\ \E i \in 1..Len(received["GenerateNewsFromRepositoryUpdates"]) :
          received["GenerateNewsFromRepositoryUpdates"][i].name
              = "source-files-extracted"

(***************************************************************************)
(* Command.handle and run_task are one sequential program: a step that can *)
(* be taken is taken.                                                      *)
(***************************************************************************)
SpecLive == Init /\ [][Next]_vars /\ WF_vars(Next)

C22_Transition ==
    \A t \in Tasks :
        \/ status'[t] = status[t]
        \/ <<status[t], status'[t]>> \in
              {<<"None", "Pending">>, <<"Pending", "Running">>,
               <<"Running", "Succeeded">>, <<"Running", "Failed">>}
        \/ hpc = "ran" /\ hpc' = "loop" /\ status'[t] = "None"

C22_RunStateMachine ==
    /\ [][C22_Transition]_vars
    /\ [](\A i, j \in 1..Len(started) : started[i] = started[j] => i = j)

\* C22: when no name is given twice, a task is executed at most once in one
\* invocation of the command, also when it is requested by name and is in
\* the closure of another requested name.
C22_ExecutedAtMostOnce ==
    (\A i, j \in 1..Len(args) : args[i] = args[j] => i = j) =>
        \A t \in Tasks : executions[t] <= 1

\* C23: a task that has not started has received no event; a task that has
\* started has received, once each and in the order of the log, exactly the
\* events of the log whose name is in its DEPENDS_ON_EVENTS, all of them
\* when it started.
C23_ReceivedEvents ==
    \A t \in Tasks :
        IF status[t] \in {"Running", "Succeeded", "Failed"}
        THEN received[t] =
                SelectSeq(event_log,
                          LAMBDA e : e.name \in DEPENDS_ON_EVENTS(t))
        ELSE received[t] = << >>

\* UpdatePackageGeneralInformation runs with an event it depends on, while
\* the log holds an event it does not depend on
C23_Witness ==
    /\ status["UpdatePackageGeneralInformation"] = "Running"
    /\ received["UpdatePackageGeneralInformation"] # << >>
    /\ \E i \in 1..Len(event_log) :
          event_log[i].name
              \notin DEPENDS_ON_EVENTS("UpdatePackageGeneralInformation")

\* the parameters handle passes reach every task of the run: with --force
\* every package-update task has force_update set, without it none has
C24_ForceParameter ==
    hpc \in {"run", "ran"} =>
        \A t \in job :
            task_force_update[t] = (options_force /\ t \in PackageUpdateTasks)

(***************************************************************************)
(* PackageUpdateTask.set_parameters, called on one task with mappings of   *)
(* known and unknown keys.                                                 *)
(***************************************************************************)
\* calls made on the task
MaxCalls == 4

ParameterKeys == {"force_update", "verbose", "retries"}

ParameterMappings == UNION {[K -> BOOLEAN] : K \in SUBSET ParameterKeys}

\* the task as PackageUpdateTask.__init__ leaves it
InitParameters ==
    /\ SyncUntouched
    /\ NoInvocation

set_parameters_call(mapping) ==
    /\ calls < MaxCalls
    /\ calls' = calls + 1
    /\ given_parameters' = mapping
    /\ force_update' = PackageUpdateTask_set_parameters(force_update, mapping)
    /\ UNCHANGED cachevars
    /\ UNCHANGED <<upstream, cached, names, versions, entries, binaries, pc,
                   updated_sources, repository_files, repository, position,
                   all_repository_entries, raised_events, saved, outcome,
                   runs, changes, quiet, clean, audit>>
    /\ UNCHANGED schedvars
    /\ UNCHANGED appvars
    /\ UNCHANGED corevars

NextParameters == \E mapping \in ParameterMappings : set_parameters_call(mapping)

SpecParameters == InitParameters /\ [][NextParameters]_vars

\* C25: a call of set_parameters sets force_update to the value the mapping
\* gives it and changes nothing else; with a mapping that has no
\* force_update, whatever other keys it has, force_update keeps its value,
\* which is False when no call has set it.
C25_Step ==
    /\ force_update' =
          IF "force_update" \in DOMAIN given_parameters'
          THEN given_parameters'["force_update"]
          ELSE force_update
    /\ UNCHANGED <<upstream, cached, names, versions, entries, binaries, pc,
                   updated_sources, repository_files, repository, position,
                   all_repository_entries, raised_events, saved, outcome>>

C25_ParametersFrame ==
    /\ [][C25_Step]_vars
    /\ [](calls = 0 => force_update = FALSE)

\* the task had force_update set, and a call with unknown keys only has
\* left it set
C25_Witness ==
    /\ calls >= 2
    /\ force_update
    /\ given_parameters # << >>
    /\ "force_update" \notin DOMAIN given_parameters

\* C28: at most one task is Running at any moment; a task starts only when
\* no task is Running, so the execute of one task is over before the next
\* begins; two tasks of which one is in the dependency closure of the other
\* are never Running together.
C28_OneTaskRunning ==
    /\ [](\A t, u \in Tasks :
            (status[t] = "Running" /\ status[u] = "Running") => t = u)
    /\ [][\A t \in Tasks :
            (status[t] # "Running" /\ status'[t] = "Running") =>
                \A u \in Tasks : status[u] # "Running"]_vars
    /\ [](\A t, u \in Tasks :
            (t # u /\ status[t] = "Running" /\ status[u] = "Running") =>
                (t \notin Closure({u}) /\ u \notin Closure({t})))

\* a task executes after another has finished and while a third waits
C28_Witness ==
    \E t, u, w \in job :
        /\ status[t] = "Running"
        /\ status[u] = "Pending"
        /\ status[w] \in {"Succeeded", "Failed"}

\* C29: the log is empty when a run starts; within a run a step leaves the
\* log as it is, or appends one event raised in this run by the task that
\* is Running, or, when a task fails, takes the events of that task out;
\* every event of the log, and every event a task has received, was raised
\* in the current run.
C29_LogStep ==
    \/ event_log' = event_log
    \/ /\ hpc # "run"
       /\ event_log' = << >>
    \/ /\ hpc = "run"
       /\ Len(event_log') = Len(event_log) + 1
       /\ SubSeq(event_log', 1, Len(event_log)) = event_log
       /\ status[event_log'[Len(event_log')].producer] = "Running"
       /\ event_log'[Len(event_log')].run = arg_index
    \/ \E t \in Tasks :
          /\ status[t] = "Running"
          /\ status'[t] = "Failed"
          /\ event_log' = SelectSeq(event_log, LAMBDA e : e.producer # t)

C29_RunScopedLog ==
    /\ [][C29_LogStep]_vars
    /\ [][(hpc # "run" /\ hpc' = "run") => event_log' = << >>]_vars
    /\ [](\A i \in 1..Len(event_log) : event_log[i].run = arg_index)
    /\ [](\A t \in Tasks : \A i \in 1..Len(received[t]) :
              received[t][i].run = arg_index)

\* in a run that follows a run of the same producer, a task has received
\* events
C29_Witness ==
    /\ arg_index >= 2
    /\ executions["UpdateRepositoriesTask"] = 2
    /\ \E t \in job : status[t] = "Running" /\ Len(received[t]) >= 2

(***************************************************************************)
(* AptCache.update_repositories, called again and again on an archive      *)
(* whose index files change between the calls.                             *)
(***************************************************************************)
\* the versions an index file goes through
MaxVersion == 2

InitCache ==
    /\ SyncUntouched
    /\ NoInvocation

\* the archive publishes a new version of an index file
archive_publish(f) ==
    /\ upc = "idle"
    /\ archive[f] < MaxVersion
    /\ archive' = [archive EXCEPT ![f] = @ + 1]
    /\ UNCHANGED <<lists, lists_before, force_download, progress, result, upc,
                   given_parameters, calls>>
    /\ UNCHANGED syncvars
    /\ UNCHANGED schedvars
    /\ UNCHANGED appvars
    /\ UNCHANGED corevars

\* update_repositories(force_download) up to cache.update(progress)
update_repositories_call(force) ==
    /\ upc = "idle"
    /\ calls < MaxCalls
    /\ calls' = calls + 1
    /\ force_download' = force
    /\ lists' = IF force THEN [f \in AcquiredFiles |-> 0] ELSE lists
    /\ lists_before' = lists'
    /\ progress' = NoProgress
    /\ upc' = "update"
    /\ UNCHANGED <<archive, result, given_parameters>>
    /\ UNCHANGED syncvars
    /\ UNCHANGED schedvars
    /\ UNCHANGED appvars
    /\ UNCHANGED corevars

Reported == Range(progress.fetched) \cup Range(progress.hit)

\* AcquireProgress.done: apt has fetched the file, whose cached copy was
\* not the version of the archive
AcquireProgress_done(f) ==
    /\ upc = "update"
    /\ f \notin Reported
    /\ lists[f] # archive[f]
    /\ lists' = [lists EXCEPT ![f] = archive[f]]
    /\ progress' = [progress EXCEPT !.fetched = Append(@, f)]
    /\ UNCHANGED <<archive, lists_before, force_download, result, upc,
                   given_parameters, calls>>
    /\ UNCHANGED syncvars
    /\ UNCHANGED schedvars
    /\ UNCHANGED appvars
    /\ UNCHANGED corevars

\* AcquireProgress.ims_hit: the archive answers that the cached copy is
\* current
AcquireProgress_ims_hit(f) ==
    /\ upc = "update"
    /\ f \notin Reported
    /\ lists[f] = archive[f]
    /\ progress' = [progress EXCEPT !.hit = Append(@, f)]
    /\ UNCHANGED <<archive, lists, lists_before, force_download, result, upc,
                   given_parameters, calls>>
    /\ UNCHANGED syncvars
    /\ UNCHANGED schedvars
    /\ UNCHANGED appvars
    /\ UNCHANGED corevars

\* cache.update has returned: the loop over progress.fetched and the return
update_repositories_return ==
    /\ upc = "update"
    /\ Reported = AcquiredFiles
    /\ result' = AptCache_updated_files(progress.fetched)
    /\ upc' = "idle"
    /\ UNCHANGED <<archive, lists, lists_before, force_download, progress,
                   given_parameters, calls>>
    /\ UNCHANGED syncvars
    /\ UNCHANGED schedvars
    /\ UNCHANGED appvars
    /\ UNCHANGED corevars

NextCache ==
    \/ \E f \in AcquiredFiles : archive_publish(f)
    \/ \E force \in BOOLEAN : update_repositories_call(force)
    \/ \E f \in AcquiredFiles : AcquireProgress_done(f)
    \/ \E f \in AcquiredFiles : AcquireProgress_ims_hit(f)
    \/ update_repositories_return

SpecCache == InitCache /\ [][NextCache]_vars

\* the two lists against progress and against the versions of the files
C30_Returned ==
        /\ \A k \in 1..2 :
              {result[k][i] : i \in 1..Len(result[k])} =
                  {<<f[1], <<"var", "lib", "apt", "lists">> \o f>> :
                      f \in {g \in AcquiredFiles :
                                /\ \E i \in 1..Len(progress.fetched) :
                                      progress.fetched[i] = g
                                /\ g[Len(g)] = <<"Sources", "Packages">>[k]}}
        /\ \A k \in 1..2 : \A i \in 1..Len(result[k]) :
              /\ \A j \in 1..Len(progress.hit) :
                    result[k][i][2] # <<"var", "lib", "apt", "lists">> \o progress.hit[j]
              /\ result[k][i][2][Len(result[k][i][2])] = <<"Sources", "Packages">>[k]
              /\ \A j \in 1..Len(result[k]) :
                    result[k][j] = result[k][i] => j = i
        /\ \A f \in AcquiredFiles :
              (f[Len(f)] \in {"Sources", "Packages"}) =>
                  ((\E k \in 1..2 : \E i \in 1..Len(result[k]) :
                        result[k][i][2] = <<"var", "lib", "apt", "lists">> \o f)
                   <=> (force_download \/ lists_before[f] # archive[f]))

\* C30: in the state update_repositories returns in, every file reported fetched
\* whose name ends in Sources is in the first list, every one whose name
\* ends in Packages is in the second, each paired with its repository and
\* full path, and the lists hold nothing else: no file answered from the
\* cache and no file of another name.  The files of a call that was not
\* forced are those whose archive version is not the version cached before
\* the call; a forced call, which clears the cache, returns them all.
C30_UpdatedFiles ==
    [][(upc = "update" /\ upc' = "idle") => C30_Returned']_vars

\* a call that was not forced has returned a Sources file and a Packages
\* file while another Sources file was answered from the cache and the file
\* of another name was fetched
C30_Witness ==
    /\ upc = "idle"
    /\ calls >= 2
    /\ ~force_download
    /\ Len(result[1]) = 1
    /\ Len(result[2]) = 1
    /\ \E i \in 1..Len(progress.hit) : progress.hit[i][Len(progress.hit[i])] = "Sources"
    /\ \E i \in 1..Len(progress.fetched) : progress.fetched[i] = <<"stable", "InRelease">>

(***************************************************************************)
(* EmailUserBounceStatsManager: get_bounce_stats, add_bounce_for_user and  *)
(* add_sent_for_user called for the users with any dates.                  *)
(***************************************************************************)
\* the mails counted on one date
MaxMails == 1

NewBounceStats(date) == [date |-> date, mails_sent |-> 0, mails_bounced |-> 0]

\* user.bouncestats_set.get_or_create(date=date): the rows after it
bouncestats_get_or_create(rows, date) ==
    IF \E r \in rows : r.date = date THEN rows ELSE rows \cup {NewBounceStats(date)}

\* limit_bounce_information: the rows after the first
\* PTS_MAX_DAYS_TOLERATE_BOUNCE of the ordering ['-date'] are deleted
limit_bounce_information(rows) ==
    {r \in rows :
        Cardinality({q \in rows : q.date > r.date}) < PTS_MAX_DAYS_TOLERATE_BOUNCE}

\* get_bounce_stats: the rows after the call
get_bounce_stats_rows(rows, date) ==
    IF \E r \in rows : r.date = date
    THEN rows
    ELSE limit_bounce_information(bouncestats_get_or_create(rows, date))

\* get_bounce_stats: the instance returned, which is the row of the date as
\* get_or_create found or made it
get_bounce_stats(rows, date) ==
    CHOOSE r \in bouncestats_get_or_create(rows, date) : r.date = date

\* Model.save of an instance: its row is updated, or inserted when the
\* table has no row of its key
BounceStats_save(rows, instance) ==
    {r \in rows : r.date # instance.date} \cup {instance}

InitBounce ==
    /\ SyncUntouched
    /\ NoInvocation

get_bounce_stats_call(u, d) ==
    /\ bouncestats_set' =
          [bouncestats_set EXCEPT ![u] = get_bounce_stats_rows(@, d)]
    /\ UNCHANGED <<given_parameters, calls, cachevars, authvars>>
    /\ UNCHANGED corevars
    /\ UNCHANGED syncvars
    /\ UNCHANGED schedvars

add_bounce_for_user(u, d) ==
    /\ get_bounce_stats(bouncestats_set[u], d).mails_bounced < MaxMails
    /\ bouncestats_set' =
          [bouncestats_set EXCEPT ![u] =
              BounceStats_save(get_bounce_stats_rows(@, d),
                               [get_bounce_stats(@, d) EXCEPT
                                   !.mails_bounced = @ + 1])]
    /\ UNCHANGED <<given_parameters, calls, cachevars, authvars>>
    /\ UNCHANGED corevars
    /\ UNCHANGED syncvars
    /\ UNCHANGED schedvars

add_sent_for_user(u, d) ==
    /\ get_bounce_stats(bouncestats_set[u], d).mails_sent < MaxMails
    /\ bouncestats_set' =
          [bouncestats_set EXCEPT ![u] =
              BounceStats_save(get_bounce_stats_rows(@, d),
                               [get_bounce_stats(@, d) EXCEPT
                                   !.mails_sent = @ + 1])]
    /\ UNCHANGED <<given_parameters, calls, cachevars, authvars>>
    /\ UNCHANGED corevars
    /\ UNCHANGED syncvars
    /\ UNCHANGED schedvars

NextBounce ==
    \/ \E u \in EmailUsers, d \in Dates : get_bounce_stats_call(u, d)
    \/ \E u \in EmailUsers, d \in Dates : add_bounce_for_user(u, d)
    \/ \E u \in EmailUsers, d \in Dates : add_sent_for_user(u, d)

SpecBounce == InitBounce /\ [][NextBounce]_vars

\* C31: every user has at most one BounceStats row for a date and at most
\* PTS_MAX_DAYS_TOLERATE_BOUNCE rows.
C31_BounceStatsLimited ==
    \A u \in EmailUsers :
        /\ \A r, q \in bouncestats_set[u] : r.date = q.date => r = q
        /\ Cardinality(bouncestats_set[u]) <= PTS_MAX_DAYS_TOLERATE_BOUNCE

\* every user has at most one BounceStats row for a date
C31_OnePerDate ==
    \A u \in EmailUsers :
        \A r, q \in bouncestats_set[u] : r.date = q.date => r = q

(***************************************************************************)
(* PtsUserBackend.authenticate, called with any email and password on the  *)
(* accounts that registration has made.                                    *)
(***************************************************************************)
\* make_password: the stored form of a raw password
make_password(raw_password) == <<"pbkdf2_sha256", raw_password>>

\* user.check_password(password)
check_password(u, raw_password) == accounts_password[u] = make_password(raw_password)

\* the password is not checked
authenticate_AnyPassword(username, raw_password) ==
    IF accounts_emails[username] = "none" THEN "None" ELSE accounts_emails[username]

\* PtsUserBackend.authenticate: the user returned, or "None"
authenticate(username, raw_password) ==
    IF accounts_emails[username] = "none"
    THEN "None"
    ELSE IF check_password(accounts_emails[username], raw_password)
         THEN accounts_emails[username]
         ELSE "None"

InitAuth ==
    /\ SyncUntouched
    /\ NoInvocation

\* User.objects.create_user(main_email, password): the main email is one
\* of the emails of the user; an email belongs to one user
create_user(u, main_email, raw_password) ==
    /\ accounts_password[u] = "none"
    /\ accounts_emails[main_email] = "none"
    /\ accounts_password' = [accounts_password EXCEPT ![u] = make_password(raw_password)]
    /\ accounts_emails' = [accounts_emails EXCEPT ![main_email] = u]
    /\ UNCHANGED <<auth_call, bouncestats_set, given_parameters, calls, cachevars>>
    /\ UNCHANGED corevars
    /\ UNCHANGED syncvars
    /\ UNCHANGED schedvars

\* u.emails.create(email=associated_email)
emails_create(u, associated_email) ==
    /\ accounts_password[u] # "none"
    /\ accounts_emails[associated_email] = "none"
    /\ accounts_emails' = [accounts_emails EXCEPT ![associated_email] = u]
    /\ UNCHANGED <<accounts_password, auth_call, bouncestats_set,
                   given_parameters, calls, cachevars>>
    /\ UNCHANGED corevars
    /\ UNCHANGED syncvars
    /\ UNCHANGED schedvars

authenticate_call(username, raw_password) ==
    /\ auth_call' = [username |-> username, password |-> raw_password,
                     result |-> authenticate(username, raw_password)]
    /\ UNCHANGED <<accounts_password, accounts_emails, bouncestats_set,
                   given_parameters, calls, cachevars>>
    /\ UNCHANGED corevars
    /\ UNCHANGED syncvars
    /\ UNCHANGED schedvars

NextAuth ==
    \/ \E u \in Users, e \in Emails, p \in Passwords : create_user(u, e, p)
    \/ \E u \in Users, e \in Emails : emails_create(u, e)
    \/ \E e \in Emails, p \in Passwords : authenticate_call(e, p)

SpecAuth == InitAuth /\ [][NextAuth]_vars

\* C32: a call of authenticate returns user u exactly when the email given
\* is one of the emails of u and the password given is the password of u;
\* in every other case, an email of no user or a wrong password, it returns
\* None; the call changes no account.
C32_Authenticate ==
    [][auth_call' # auth_call =>
          /\ \A u \in Users :
                auth_call'.result = u <=>
                    /\ accounts_emails[auth_call'.username] = u
                    /\ accounts_password[u] = <<"pbkdf2_sha256", auth_call'.password>>
          /\ auth_call'.result \in Users \cup {"None"}
          /\ UNCHANGED <<accounts_password, accounts_emails>>]_vars

\* the user has logged in with an associated email, and another user with
\* another password exists
C32_Witness ==
    /\ auth_call.result = "user"
    /\ accounts_emails["user@domain.com"] = "user"
    /\ auth_call.username = "email@domain.com"
    /\ accounts_emails["admin@domain.com"] = "admin"
    /\ accounts_password["admin"] # accounts_password["user"]

(***************************************************************************)
(* GenerateNewsFromRepositoryUpdates: the News rows of a run in which the  *)
(* task follows UpdateRepositoriesTask and ExtractSourcePackageFiles       *)
(* (SpecNews).                                                             *)
(***************************************************************************)
\* BaseTask.get_all_events of the news task: the events of the run it
\* declares, those of the repository update before the one of the extraction
GenerateNews_get_all_events(raised) ==
    SelectSeq(raised,
              LAMBDA e : e.name \in
                  GenerateNewsFromRepositoryUpdates_DEPENDS_ON_EVENTS)
    \o <<Event("source-files-extracted", << >>)>>

\* new_source_versions[package_name]
new_source_versions(events, package_name) ==
    {events[i].arguments.version : i \in
        {j \in DOMAIN events :
            /\ events[j].name = "new-source-package-version"
            /\ events[j].arguments.name = package_name}}

\* the events of the repository are not looked at
repository_has_new_version_Never(events, package_name, repository_name) ==
    FALSE

\* 'new-source-package-version-in-repository' in event_names, of the events
\* of the package grouped under the repository
repository_has_new_version(events, package_name, repository_name) ==
    \E i \in DOMAIN events :
        /\ events[i].name = "new-source-package-version-in-repository"
        /\ events[i].arguments.name = package_name
        /\ events[i].arguments.repository = repository_name

\* the version is looked up no more
GenerateNews_title_Accepted(events, event) ==
    IF event.name = "new-source-package-version-in-repository"
    THEN "Accepted"
    ELSE IF event.name = "lost-source-package-version-in-repository"
              /\ ~repository_has_new_version(events, event.arguments.name,
                                             event.arguments.repository)
         THEN "REMOVED"
         ELSE "None"

\* the title chosen for one event of a repository, "None": no News row
GenerateNews_title(events, event) ==
    IF event.name = "new-source-package-version-in-repository"
    THEN IF event.arguments.version \in
                new_source_versions(events, event.arguments.name)
         THEN "Accepted"
         ELSE "MIGRATED"
    ELSE IF event.name = "lost-source-package-version-in-repository"
              /\ ~repository_has_new_version(events, event.arguments.name,
                                             event.arguments.repository)
         THEN "REMOVED"
         ELSE "None"

\* News.objects.create(package=package, title=title.format(pkg, repo, ver))
News_create(title, event) ==
    [title |-> title,
     pkg |-> event.arguments.name,
     ver |-> event.arguments.version,
     repo |-> event.arguments.repository]

\* generate_accepted_news_content: the version and one of its entries are
\* looked up
generate_accepted_news_content_found(package_name, version) ==
    /\ <<package_name, version>> \in versions
    /\ \E e \in entries : e[2] = package_name /\ e[3] = version

\* GenerateNewsFromRepositoryUpdates.execute: the rows created, in the order
\* of the events (the code goes by package and by repository)
GenerateNewsFromRepositoryUpdates_execute(events, stored) ==
    LET package_changes ==
            SelectSeq(events, LAMBDA e : e.name # "source-files-extracted")
        with_title ==
            SelectSeq(package_changes,
                      LAMBDA e : /\ e.name # "new-source-package-version"
                                 /\ e.arguments.name \in stored
                                 /\ GenerateNews_title(package_changes, e) # "None")
    IN  [i \in DOMAIN with_title |->
            News_create(GenerateNews_title(package_changes, with_title[i]),
                        with_title[i])]

\* the task runs after a repository update that succeeded; an Accepted row
\* needs the content of the version
GenerateNews_execute ==
    /\ pc = "done"
    /\ outcome = "ok"
    /\ LET created == GenerateNewsFromRepositoryUpdates_execute(
                          GenerateNews_get_all_events(raised_events), names)
       IN  /\ \A i \in DOMAIN created :
                  created[i].title = "Accepted" =>
                      generate_accepted_news_content_found(created[i].pkg,
                                                           created[i].ver)
           /\ news' = created
    /\ pc' = "news"
    /\ UNCHANGED <<upstream, cached, names, versions, entries, binaries,
                   force_update, updated_sources, repository_files,
                   repository, position, all_repository_entries,
                   raised_events, saved, outcome, runs, changes, quiet, clean,
                   audit>>
    /\ UNCHANGED schedvars
    /\ UNCHANGED <<given_parameters, calls, cachevars, appvars, package_names,
                   pseudo_call, extraction>>

\* the tasks of the run are dropped
GenerateNews_exit ==
    /\ pc = "news"
    /\ pc' = "idle"
    /\ news' = << >>
    /\ force_update' = FALSE
    /\ updated_sources' = << >>
    /\ repository_files' = {}
    /\ repository' = "none"
    /\ position' = Finished
    /\ all_repository_entries' = {}
    /\ raised_events' = << >>
    /\ saved' = EmptyStore
    /\ outcome' = "none"
    /\ audit' = EmptyAudit
    /\ UNCHANGED <<upstream, cached, names, versions, entries, binaries, runs,
                   changes, quiet, clean>>
    /\ UNCHANGED schedvars
    /\ UNCHANGED <<given_parameters, calls, cachevars, appvars, package_names,
                   pseudo_call, extraction>>

NextNews ==
    \/ \E f \in FileSet, listing \in Listings : upstream_change(f, listing)
    \/ \E force \in BOOLEAN : execute_begin(force)
    \/ \E force \in BOOLEAN : update_repositories_fail(force)
    \/ \E r \in Repositories : next_repository(r)
    \/ update_sources_file
    \/ mark_sources_files_not_processed
    \/ update_repository_entries
    \/ remove_obsolete_versions
    \/ remove_obsolete_names
    \/ remove_obsolete_binaries
    \/ execute_fail
    \/ task_exit
    \/ GenerateNews_execute
    \/ GenerateNews_exit

SpecNews == InitSync /\ [][NextNews]_vars

\* C36: the REMOVED rows the news task creates are, one for one, the
\* lost-source-package-version-in-repository events of the run whose package
\* is still stored and for whose package and repository the run has no
\* new-source-package-version-in-repository event; a version replaced in a
\* repository yields no REMOVED row.
C36_RemovedRows ==
    pc = "news" =>
        LET removed == SelectSeq(news, LAMBDA row : row.title = "REMOVED")
            lost == SelectSeq(raised_events, LAMBDA e :
                        /\ e.name = "lost-source-package-version-in-repository"
                        /\ e.arguments.name \in names
                        /\ ~\E i \in DOMAIN raised_events :
                               /\ raised_events[i].name
                                      = "new-source-package-version-in-repository"
                               /\ raised_events[i].arguments.name
                                      = e.arguments.name
                               /\ raised_events[i].arguments.repository
                                      = e.arguments.repository)
        IN  /\ Len(removed) = Len(lost)
            /\ \A i \in DOMAIN removed :
                   /\ removed[i].pkg = lost[i].arguments.name
                   /\ removed[i].ver = lost[i].arguments.version
                   /\ removed[i].repo = lost[i].arguments.repository

\* the news task ran on a run in which one version was replaced in its
\* repository, which gave no row, and the package left another repository,
\* which gave a REMOVED row
C36_Witness ==
    /\ pc = "news"
    /\ \E i \in DOMAIN news : news[i].title = "REMOVED"
    /\ \E i, j \in DOMAIN raised_events :
           /\ raised_events[i].name = "lost-source-package-version-in-repository"
           /\ raised_events[j].name = "new-source-package-version-in-repository"
           /\ raised_events[i].arguments.name = raised_events[j].arguments.name
           /\ raised_events[i].arguments.repository
                  = raised_events[j].arguments.repository

\* C37: each new-source-package-version-in-repository event of the run gives
\* exactly one News row, titled Accepted if the run has a
\* new-source-package-version event of the same package and version and
\* MIGRATED otherwise; no other row than these and the REMOVED rows is
\* created, so the new-source-package-version and source-files-extracted
\* events give none.
C37_AcceptedOrMigrated ==
    pc = "news" =>
        LET added == SelectSeq(news, LAMBDA row : row.title # "REMOVED")
            new == SelectSeq(raised_events, LAMBDA e :
                       e.name = "new-source-package-version-in-repository")
        IN  /\ Len(added) = Len(new)
            /\ \A i \in DOMAIN added :
                   /\ added[i].pkg = new[i].arguments.name
                   /\ added[i].ver = new[i].arguments.version
                   /\ added[i].repo = new[i].arguments.repository
                   /\ added[i].title =
                          IF \E j \in DOMAIN raised_events :
                                 /\ raised_events[j].name
                                        = "new-source-package-version"
                                 /\ raised_events[j].arguments.name
                                        = new[i].arguments.name
                                 /\ raised_events[j].arguments.version
                                        = new[i].arguments.version
                          THEN "Accepted"
                          ELSE "MIGRATED"
            /\ \A i \in DOMAIN news :
                   news[i].title \in {"Accepted", "MIGRATED", "REMOVED"}

\* the news task ran on a run that gave an Accepted row and a MIGRATED row
C37_Witness ==
    /\ pc = "news"
    /\ \E i \in DOMAIN news : news[i].title = "Accepted"
    /\ \E i \in DOMAIN news : news[i].title = "MIGRATED"

(***************************************************************************)
(* ExtractSourcePackageFiles.execute on the events of a run of             *)
(* UpdateRepositoriesTask (SpecExtract).                                   *)
(***************************************************************************)
\* new_version_pks = [event.arguments['pk'] for event in get_all_events()]
new_version_pks(raised) ==
    LET all_events == SelectSeq(raised, LAMBDA e :
                          e.name = "new-source-package-version")
    IN  [i \in DOMAIN all_events |-> all_events[i].arguments.pk]

\* SourcePackage.objects.filter(pk__in=new_version_pks)
SourcePackage_filter(pks) == SelectSeq(pks, LAMBDA pk : pk \in versions)

\* the loop ends at the first package whose extraction raises
after_except_Break(source_packages) == << >>

\* except: logger.exception(...), and the loop goes to the next package
after_except(source_packages) == Tail(source_packages)

\* execute begins after the repository update of the run, which left its
\* events, or none if it failed
ExtractSourcePackageFiles_begin ==
    /\ pc = "done"
    /\ pc' = "extract"
    /\ extraction' =
           [NoExtraction EXCEPT !.source_packages =
                SourcePackage_filter(new_version_pks(raised_events))]
    /\ UNCHANGED <<upstream, cached, names, versions, entries, binaries,
                   force_update, updated_sources, repository_files,
                   repository, position, all_repository_entries,
                   raised_events, saved, outcome, runs, changes, quiet, clean,
                   audit>>
    /\ UNCHANGED schedvars
    /\ UNCHANGED <<given_parameters, calls, cachevars, appvars, news,
                   package_names, pseudo_call>>

\* self.extract_files(source_package) returns
extract_files ==
    /\ pc = "extract"
    /\ extraction.source_packages # << >>
    /\ extraction' =
           [extraction EXCEPT
                !.extracted = @ \cup {Head(extraction.source_packages)},
                !.source_packages = Tail(@)]
    /\ UNCHANGED syncvars
    /\ UNCHANGED schedvars
    /\ UNCHANGED <<given_parameters, calls, cachevars, appvars, news,
                   package_names, pseudo_call>>

\* self.extract_files(source_package) raises
extract_files_raises ==
    /\ pc = "extract"
    /\ extraction.source_packages # << >>
    /\ extraction' =
           [extraction EXCEPT
                !.failed = @ \cup {Head(extraction.source_packages)},
                !.source_packages = after_except(@)]
    /\ UNCHANGED syncvars
    /\ UNCHANGED schedvars
    /\ UNCHANGED <<given_parameters, calls, cachevars, appvars, news,
                   package_names, pseudo_call>>

\* self.raise_event('source-files-extracted'), after the loop
raise_source_files_extracted ==
    /\ pc = "extract"
    /\ extraction.source_packages = << >>
    /\ pc' = "extracted"
    /\ extraction' =
           [extraction EXCEPT
                !.raised = Append(@, Event("source-files-extracted", << >>))]
    /\ UNCHANGED <<upstream, cached, names, versions, entries, binaries,
                   force_update, updated_sources, repository_files,
                   repository, position, all_repository_entries,
                   raised_events, saved, outcome, runs, changes, quiet, clean,
                   audit>>
    /\ UNCHANGED schedvars
    /\ UNCHANGED <<given_parameters, calls, cachevars, appvars, news,
                   package_names, pseudo_call>>

\* the tasks of the run are dropped
ExtractSourcePackageFiles_exit ==
    /\ pc = "extracted"
    /\ pc' = "idle"
    /\ extraction' = NoExtraction
    /\ force_update' = FALSE
    /\ updated_sources' = << >>
    /\ repository_files' = {}
    /\ repository' = "none"
    /\ position' = Finished
    /\ all_repository_entries' = {}
    /\ raised_events' = << >>
    /\ saved' = EmptyStore
    /\ outcome' = "none"
    /\ audit' = EmptyAudit
    /\ UNCHANGED <<upstream, cached, names, versions, entries, binaries, runs,
                   changes, quiet, clean>>
    /\ UNCHANGED schedvars
    /\ UNCHANGED <<given_parameters, calls, cachevars, appvars, news,
                   package_names, pseudo_call>>

NextExtract ==
    \/ \E f \in FileSet, listing \in Listings : upstream_change(f, listing)
    \/ \E force \in BOOLEAN : execute_begin(force)
    \/ \E force \in BOOLEAN : update_repositories_fail(force)
    \/ \E r \in Repositories : next_repository(r)
    \/ update_sources_file
    \/ mark_sources_files_not_processed
    \/ update_repository_entries
    \/ remove_obsolete_versions
    \/ remove_obsolete_names
    \/ remove_obsolete_binaries
    \/ execute_fail
    \/ task_exit
    \/ ExtractSourcePackageFiles_begin
    \/ extract_files
    \/ extract_files_raises
    \/ raise_source_files_extracted
    \/ ExtractSourcePackageFiles_exit

SpecExtract == InitSync /\ [][NextExtract]_vars

\* C38: an execution of ExtractSourcePackageFiles has raised no event while
\* its loop runs, leaves the loop only by raising source-files-extracted, and
\* has then raised exactly that one event, whatever the number of
\* new-source-package-version events it received and whichever extractions
\* raised: every version received was either extracted or failed, none was
\* left out.
C38_OneEventAtTheEnd ==
    /\ [](pc = "extract" => extraction.raised = << >>)
    /\ [](pc = "extracted" =>
            /\ extraction.raised = <<Event("source-files-extracted", << >>)>>
            /\ extraction.source_packages = << >>
            /\ extraction.extracted \cap extraction.failed = {}
            /\ extraction.extracted \cup extraction.failed =
                   {raised_events[i].arguments.pk : i \in
                       {j \in DOMAIN raised_events :
                           raised_events[j].name = "new-source-package-version"}})
    /\ [][pc = "extract" => pc' \in {"extract", "extracted"}]_vars

\* an execution ended in which the extraction of one version raised and a
\* later one was extracted
C38_Witness ==
    /\ pc = "extracted"
    /\ extraction.failed # {}
    /\ extraction.extracted # {}
    /\ \E i, j \in DOMAIN raised_events :
           /\ i < j
           /\ raised_events[i].name = "new-source-package-version"
           /\ raised_events[j].name = "new-source-package-version"
           /\ raised_events[i].arguments.pk \in extraction.failed
           /\ raised_events[j].arguments.pk \in extraction.extracted

\* an execution that received no event ended
C38_WitnessNone ==
    /\ pc = "extracted"
    /\ raised_events = << >>
    /\ Len(extraction.raised) = 1

(***************************************************************************)
(* update_pseudo_package_list (SpecPseudo).                                *)
(***************************************************************************)
\* what vendor.call('get_pseudo_package_list') does: it raises, the vendor
\* does not implement the function, the function returns None, or it returns
\* a list
HookOutcomes ==
    {[outcome |-> o, pseudo_packages |-> {}] :
        o \in {"raises", "not implemented", "None"}}
    \cup {[outcome |-> "list", pseudo_packages |-> L] : L \in SUBSET PackageNames}

\* a list of None is taken for the empty list
hook_gives_list_NoneIsEmpty(hook) == hook.outcome \in {"list", "None"}

\* no exception, implemented, and pseudo_packages is not None
hook_gives_list(hook) == hook.outcome = "list"

\* PseudoPackageName.objects.all()
PseudoPackageName_all(rows) == {n \in PackageNames : rows[n] = "pseudo"}

\* the first loop: a pseudo package that is not in the list becomes a
\* subscription-only package; one that is in the list is taken off the set
demote(rows, pseudo_packages) ==
    [n \in PackageNames |->
        IF rows[n] = "pseudo" /\ n \notin pseudo_packages
        THEN "subscription-only"
        ELSE rows[n]]

\* the names left in the set after the first loop
left_over(rows, pseudo_packages) ==
    pseudo_packages \ PseudoPackageName_all(rows)

\* PseudoPackageName.objects.create(name=package_name); name is the unique
\* key of PackageName, so the name of a row of another type is refused
PseudoPackageName_create_refused(rows, package_name) ==
    rows[package_name] # "none"

PseudoPackageName_create(rows, created) ==
    [n \in PackageNames |-> IF n \in created THEN "pseudo" ELSE rows[n]]

\* any prior state of the table
InitPseudo ==
    /\ package_names \in [PackageNames -> PackageTypes \cup {"none"}]
    /\ NoCallYet
    /\ executions = [t \in Tasks |-> 0]
    /\ args = << >>
    /\ options_force = FALSE
    /\ arg_index = 1
    /\ hpc = "exit"
    /\ attempts = << >>
    /\ NoJob
    /\ SyncUntouched

\* the hook gives no list: return
update_pseudo_package_list_return(hook) ==
    /\ ~hook_gives_list(hook)
    /\ pseudo_call' = [hook |-> hook, result |-> "returned"]
    /\ UNCHANGED package_names
    /\ UNCHANGED <<given_parameters, calls, cachevars, appvars, news,
                   extraction>>
    /\ UNCHANGED syncvars
    /\ UNCHANGED schedvars

\* the hook gives a list: the two loops.  The second one goes over a set, in
\* any order, and stops at the first name that is refused.
update_pseudo_package_list(hook) ==
    /\ hook_gives_list(hook)
    /\ LET demoted == demote(package_names, hook.pseudo_packages)
           missing == left_over(package_names, hook.pseudo_packages)
           refused == {n \in missing :
                          PseudoPackageName_create_refused(demoted, n)}
       IN  IF refused = {}
           THEN /\ package_names' = PseudoPackageName_create(demoted, missing)
                /\ pseudo_call' = [hook |-> hook, result |-> "returned"]
           ELSE \E created \in SUBSET (missing \ refused) :
                /\ package_names' = PseudoPackageName_create(demoted, created)
                /\ pseudo_call' = [hook |-> hook, result |-> "IntegrityError"]
    /\ UNCHANGED <<given_parameters, calls, cachevars, appvars, news,
                   extraction>>
    /\ UNCHANGED syncvars
    /\ UNCHANGED schedvars

NextPseudo ==
    \/ \E hook \in HookOutcomes : update_pseudo_package_list_return(hook)
    \/ \E hook \in HookOutcomes : update_pseudo_package_list(hook)

SpecPseudo == InitPseudo /\ [][NextPseudo]_vars

\* C39: after update_pseudo_package_list was called with the vendor giving
\* the list L, from any prior table, the call has returned and the pseudo
\* packages are exactly the names of L.
C39_PseudoPackagesAreTheList ==
    pseudo_call.hook.outcome = "list" =>
        /\ pseudo_call.result = "returned"
        /\ {n \in PackageNames : package_names[n] = "pseudo"}
               = pseudo_call.hook.pseudo_packages

\* what holds of C39: a call that returns leaves exactly the list as pseudo
\* packages
C39_WhenReturned ==
    (pseudo_call.hook.outcome = "list" /\ pseudo_call.result = "returned") =>
        {n \in PackageNames : package_names[n] = "pseudo"}
            = pseudo_call.hook.pseudo_packages

\* what holds of C39: no row is deleted, a row changes only from pseudo to
\* subscription-only or is created as pseudo, and a call that follows a
\* returned call with the same list changes nothing
C39_DemotedNeverDeleted ==
    [][\A n \in PackageNames :
          /\ package_names[n] # "none" => package_names'[n] # "none"
          /\ package_names'[n] # package_names[n] =>
                 \/ package_names[n] = "pseudo"
                        /\ package_names'[n] = "subscription-only"
                        /\ n \notin pseudo_call'.hook.pseudo_packages
                 \/ package_names[n] = "none"
                        /\ package_names'[n] = "pseudo"
                        /\ n \in pseudo_call'.hook.pseudo_packages
          /\ (pseudo_call.result = "returned"
                /\ pseudo_call.hook.outcome = "list"
                /\ pseudo_call'.hook = pseudo_call.hook) =>
                 package_names' = package_names]_vars

\* C40: a call of update_pseudo_package_list in which the vendor hook raises,
\* is not implemented or returns None returns without an error and changes
\* no PackageName row.
C40_NoListNoChange ==
    [][pseudo_call'.hook.outcome \in {"raises", "not implemented", "None"} =>
          /\ pseudo_call'.result = "returned"
          /\ \A n \in PackageNames : package_names'[n] = package_names[n]]_vars

\* the hook returned None on a table that has pseudo packages
C40_Witness ==
    /\ pseudo_call.hook.outcome = "None"
    /\ pseudo_call.result = "returned"
    /\ \E n \in PackageNames : package_names[n] = "pseudo"

=============================================================================
